---- MODULE Spec2Model ----
(***************************************************************************)
(* State-machine model of the OpenAPI preview extension:                   *)
(*   - HttpServer   (httpServer.ts, src/unnamed/part_003)                  *)
(*   - FileWatcher  (fileWatcher.ts, src/src/fileDetection.ts 631-789)     *)
(*   - PreviewManager (previewManager.ts, src/src/fileDetection.ts 88-629) *)
(*                                                                         *)
(* Strings that the code takes apart (document URIs, request paths,        *)
(* opaque ids) are sequences of character codes; document texts, which the *)
(* code only stores, compares with the empty string and hands on, are      *)
(* TLA+ strings.                                                           *)
(***************************************************************************)
EXTENDS Integers, Sequences, FiniteSets, TLC

VARIABLES
  \* HttpServer
  server,               \* this.server: "undefined", "binding", "listening", "failed"
  port,                 \* this.port
  contentMap,           \* this.contentMap: opaque id -> text
  \* PreviewManager
  previews,             \* this.previews: document -> session
  lastColumnPositions,  \* this.lastColumnPositions: document -> column, 0 = no entry
  \* The host: documents, display surfaces, subscriptions that outlive a session
  docText,              \* document.getText() of every document
  surfaces,             \* number of open display surfaces created for a document
  leaked,               \* watchers of removed sessions that were never disposed
  \* A FileWatcher instance used on its own
  fw,
  \* History (not program state): what the last step did
  lastOp,               \* the last operation and its inputs and results
  owners,               \* documents registered with the HttpServer and not removed
  burst,                \* the latest edits seen by fw since its last delivery
  cancelled,            \* registrations of fw that a dispose() has covered
  \* The document of one webview, as its script sees it
  view

httpVars == <<server, port, contentMap>>
pmVars == <<previews, lastColumnPositions>>
hostVars == <<docText, surfaces, leaked>>
histVars == <<lastOp, owners, burst, cancelled>>
vars == <<server, port, contentMap, previews, lastColumnPositions, docText,
          surfaces, leaked, fw, lastOp, owners, burst, cancelled, view>>

(***************************************************************************)
(* Bounds of the model                                                     *)
(***************************************************************************)
\* Most watchers of removed sessions that may stay subscribed at a time.
MaxLeaked == 1
\* Most watch() calls made on the FileWatcher instance studied on its own.
MaxRegs == 2
\* Number of latest edits remembered between two deliveries of that instance.
\* Surfaces a document may have open at once (a failed createPreview leaves
\* its surface open)
MaxSurfaces == 2

MaxBurst == 2

(***************************************************************************)
(* Documents, texts                                                        *)
(***************************************************************************)
\* Three documents the user may open.  dA and dB live in the same directory.
Docs == {"dA", "dB", "dC"}

\* document.uri.toString() of each document, as character codes:
\*   dA  file:///home/dev/work/api/a.yaml
\*   dB  file:///home/dev/work/api/b.yaml
\*   dC  file:///c.yaml
Uri(d) ==
  CASE d = "dA" -> <<102, 105, 108, 101, 58, 47, 47, 47, 104, 111, 109, 101, 47,
                     100, 101, 118, 47, 119, 111, 114, 107, 47, 97, 112, 105, 47,
                     97, 46, 121, 97, 109, 108>>
    [] d = "dB" -> <<102, 105, 108, 101, 58, 47, 47, 47, 104, 111, 109, 101, 47,
                     100, 101, 118, 47, 119, 111, 114, 107, 47, 97, 112, 105, 47,
                     98, 46, 121, 97, 109, 108>>
    [] OTHER    -> <<102, 105, 108, 101, 58, 47, 47, 47, 99, 46, 121, 97, 109, 108>>

\* Texts a document may hold; "" is the empty document.
Texts == {"", "openapi: 3.0.0", "swagger: 2.0"}

\* contentMap.get(k) of a missing key
Undefined == "<undefined>"

(***************************************************************************)
(* HttpServer: the opaque identifier                                       *)
(***************************************************************************)
\* substring(0, 32)
IdLength == 32

\* The i-th character of the base64 alphabet A-Z a-z 0-9 + /
Base64Char(i) ==
  IF i < 26 THEN 65 + i
  ELSE IF i < 52 THEN 97 + (i - 26)
  ELSE IF i < 62 THEN 48 + (i - 52)
  ELSE IF i = 62 THEN 43 ELSE 47

\* Buffer.from(s).toString('base64'): three bytes give four characters, the
\* last group is padded with '=' (61).
RECURSIVE Base64(_)
Base64(bytes) ==
  IF Len(bytes) = 0 THEN <<>>
  ELSE IF Len(bytes) = 1 THEN
    << Base64Char(bytes[1] \div 4), Base64Char((bytes[1] % 4) * 16), 61, 61 >>
  ELSE IF Len(bytes) = 2 THEN
    << Base64Char(bytes[1] \div 4),
       Base64Char((bytes[1] % 4) * 16 + (bytes[2] \div 16)),
       Base64Char((bytes[2] % 16) * 4), 61 >>
  ELSE
    << Base64Char(bytes[1] \div 4),
       Base64Char((bytes[1] % 4) * 16 + (bytes[2] \div 16)),
       Base64Char((bytes[2] % 16) * 4 + (bytes[3] \div 64)),
       Base64Char(bytes[3] % 64) >> \o Base64(SubSeq(bytes, 4, Len(bytes)))

\* [a-zA-Z0-9]
IsAlnum(c) == (c >= 48 /\ c <= 57) \/ (c >= 65 /\ c <= 90) \/ (c >= 97 /\ c <= 122)

\* .replace(/[^a-zA-Z0-9]/g, '')
StripNonAlnum(s) == SelectSeq(s, IsAlnum)

\* .substring(0, n)
Prefix(s, n) == SubSeq(s, 1, IF Len(s) < n THEN Len(s) ELSE n)

\* const docId = Buffer.from(documentUri).toString('base64')
\*                 .replace(/[^a-zA-Z0-9]/g, '').substring(0, 32)
DocId(uri) == Prefix(StripNonAlnum(Base64(uri)), IdLength)

\* The ids of the model's documents, computed once.
DocIds == [d \in Docs |-> DocId(Uri(d))]

(***************************************************************************)
(* HttpServer: registry operations (on the value of contentMap)            *)
(***************************************************************************)
\* new Map()
EmptyMap == [k \in {} |-> ""]

\* Map.get
MapGet(map, k) == IF k \in DOMAIN map THEN map[k] ELSE Undefined

\* Map.set
MapSet(map, k, v) == [x \in (DOMAIN map) \cup {k} |-> IF x = k THEN v ELSE map[x]]

\* Map.delete
MapDelete(map, k) == [x \in (DOMAIN map) \ {k} |-> map[x]]

\* "/doc/"
DocPath == <<47, 100, 111, 99, 47>>

\* getServerUrl() + "/doc/" + docId: the port and the request path
UrlOf(p, docId) == [port |-> p, path |-> DocPath \o docId]

\* registerContent stores the content under the derived id ...
RegisterContentMap(map, d, content) == MapSet(map, DocIds[d], content)

\* ... and returns the URL
RegisterContentUrl(p, d) == UrlOf(p, DocIds[d])

\* updateContent
UpdateContentMap(map, d, content) == MapSet(map, DocIds[d], content)

\* removeContent
RemoveContentMap(map, d) == MapDelete(map, DocIds[d])

(***************************************************************************)
(* HttpServer: the request handler                                         *)
(***************************************************************************)
\* Length of the longest prefix of s holding no '/' (47)
RECURSIVE SegmentLength(_)
SegmentLength(s) ==
  IF Len(s) = 0 \/ s[1] = 47 THEN 0 ELSE 1 + SegmentLength(Tail(s))

\* req.url.match(/^\/doc\/([^/]+)/): the captured group, <<>> when there is
\* no match (the group is never empty when there is one)
MatchDocPath(url) ==
  IF Len(url) > Len(DocPath) /\ SubSeq(url, 1, Len(DocPath)) = DocPath
  THEN LET rest == SubSeq(url, Len(DocPath) + 1, Len(url))
       IN  SubSeq(rest, 1, SegmentLength(rest))
  ELSE <<>>

Response(status, body) == [status |-> status, body |-> body]

\* if (!content): a missing key, and the empty string as well
ContentMissing(content) == content = Undefined \/ content = ""

\* The handler passed to http.createServer.
HandleRequest(method, url, map) ==
  IF method = "OPTIONS" THEN Response(200, "")
  ELSE IF method # "GET" THEN Response(405, "Method Not Allowed")
  ELSE LET docId == MatchDocPath(url) IN
       IF docId = <<>> THEN Response(404, "Not Found")
       ELSE LET content == MapGet(map, docId) IN
            IF ContentMissing(content) THEN Response(404, "Document Not Found")
            ELSE Response(200, content)

(***************************************************************************)
(* History records                                                         *)
(***************************************************************************)
NoUrl == [port |-> 0, path |-> <<>>]

NoResponse == Response(0, "")

\* What a step did: the operation, its document and inputs, and its results.
Op(name, d) ==
  [op |-> name, doc |-> d, text |-> "", method |-> "", url |-> NoUrl,
   resp |-> NoResponse, hint |-> 0, column |-> 0, flag |-> FALSE,
   pending |-> FALSE, regs |-> {}, burst |-> <<>>,
   editor |-> [present |-> FALSE, viewColumn |-> 0], preference |-> "",
   saved |-> 0, threw |-> FALSE, onErrorThrew |-> FALSE, reported |-> FALSE,
   escaped |-> FALSE, warnings |-> 0]

(***************************************************************************)
(* HttpServer driven directly: start, register, update, remove, fetch,     *)
(* dispose                                                                 *)
(***************************************************************************)
\* The port the operating system hands out for listen(0)
Ports == {49152}

\* "?t=1", the cache-busting query the view appends (webviewContent.ts 161-162)
CacheBust == <<63, 116, 61, 49>>

\* baseUrl + '?t=' + Date.now()
WithCacheBust(url) == [url EXCEPT !.path = @ \o CacheBust]

\* URLs a client may ask for: each document's URL, plain and cache-busted, and
\* a path outside /doc/
RequestUrls(p) ==
  {RegisterContentUrl(p, d) : d \in Docs}
    \cup {WithCacheBust(RegisterContentUrl(p, d)) : d \in Docs}
    \cup {[port |-> p, path |-> <<47>>]}

\* getServerUrl(): `http://localhost:${this.port}`
GetServerUrl(p) == [port |-> p, path |-> <<>>]

\* A start() that creates a server whatever there is.
StartAlwaysBinds(s, p) == [server |-> "binding", bound |-> TRUE, url |-> NoUrl]

\* start(): with a server object it returns getServerUrl() at once;
\* without one it creates the server and calls listen(0, 'localhost'), and
\* the promise stays pending until the listen callback or the 'error' event
Start(s, p) ==
  IF s # "undefined"
  THEN [server |-> s, bound |-> FALSE, url |-> GetServerUrl(p)]
  ELSE [server |-> "binding", bound |-> TRUE, url |-> NoUrl]

\* async start(): a second call returns the URL of the server there is
HttpStart ==
  /\ server' = Start(server, port).server
  /\ lastOp' = [Op("start", "-") EXCEPT !.url = Start(server, port).url,
                                        !.flag = Start(server, port).bound]
  /\ UNCHANGED <<port, contentMap, owners>>

\* the listen callback: this.port = address.port
HttpListening ==
  /\ server = "binding"
  /\ \E p \in Ports : port' = p
  /\ server' = "listening"
  /\ lastOp' = [Op("listening", "-") EXCEPT !.url = GetServerUrl(port')]
  /\ UNCHANGED <<contentMap, owners>>

\* the 'error' event of the server: the promise is rejected
HttpFailed ==
  /\ server = "binding"
  /\ server' = "failed"
  /\ lastOp' = Op("failed", "-")
  /\ UNCHANGED <<port, contentMap, owners>>

HttpRegister(d, t) ==
  /\ contentMap' = RegisterContentMap(contentMap, d, t)
  /\ lastOp' = [Op("register", d) EXCEPT !.text = t,
                                        !.url = RegisterContentUrl(port, d)]
  /\ owners' = owners \cup {d}
  /\ UNCHANGED <<server, port>>

HttpUpdate(d, t) ==
  /\ contentMap' = UpdateContentMap(contentMap, d, t)
  /\ lastOp' = [Op("update", d) EXCEPT !.text = t,
                                      !.flag = DocIds[d] \in DOMAIN contentMap]
  /\ UNCHANGED <<server, port, owners>>

HttpRemove(d) ==
  /\ contentMap' = RemoveContentMap(contentMap, d)
  /\ lastOp' = Op("remove", d)
  /\ owners' = owners \ {d}
  /\ UNCHANGED <<server, port>>

\* A request reaches the handler only while the server listens on its port.
HttpRequest(m, url) ==
  /\ server = "listening"
  /\ url.port = port
  /\ lastOp' = [Op("request", "-") EXCEPT
                  !.method = m, !.url = url,
                  !.resp = HandleRequest(m, url.path, contentMap)]
  /\ UNCHANGED <<server, port, contentMap, owners>>

\* dispose(): close the server and clear the registry, if there is a server
HttpDispose ==
  /\ IF server # "undefined"
     THEN server' = "undefined" /\ contentMap' = EmptyMap /\ owners' = {}
     ELSE UNCHANGED <<server, contentMap, owners>>
  /\ lastOp' = Op("dispose", "-")
  /\ UNCHANGED port

(***************************************************************************)
(* FileWatcher                                                             *)
(*                                                                         *)
(* A watcher is a record                                                   *)
(*   regs          number of watch() calls made on the instance            *)
(*   disposables   the live subscriptions, each [kind, reg, uri] with kind *)
(*                 "change" (onDidChangeTextDocument) or "delete" (the     *)
(*                 file-system watcher and its onDidDelete)                *)
(*   debounceTimer TRUE when this.debounceTimer holds a handle             *)
(*   timeouts      the callbacks setTimeout has scheduled and the host has *)
(*                 not run yet, oldest first, each [reg, uri]; the handle  *)
(*                 in debounceTimer is the last of them                    *)
(***************************************************************************)
\* new FileWatcher()
NewFileWatcher ==
  [regs |-> 0, disposables |-> {}, debounceTimer |-> FALSE, timeouts |-> <<>>]

Subscription(kind, r, d) == [kind |-> kind, reg |-> r, uri |-> d]

\* watch(uri, ...): subscribes to document changes and, unless creating the
\* file-system watcher throws, to deletions
Watch(w, d, fsWatcherThrows) ==
  LET r == w.regs + 1 IN
  [w EXCEPT !.regs = r,
            !.disposables = @ \cup {Subscription("change", r, d)}
               \cup (IF fsWatcherThrows THEN {} ELSE {Subscription("delete", r, d)})]

\* A debounce that forgets to clear the timer it replaces.
DebounceChangeNoClear(w, r, d) ==
  [w EXCEPT !.debounceTimer = TRUE,
            !.timeouts = Append(@, [reg |-> r, uri |-> d])]

\* debounceChange(fn): clearTimeout of the pending timer, then a new one
DebounceChange(w, r, d) ==
  LET cleared == IF w.debounceTimer /\ Len(w.timeouts) > 0
                 THEN SubSeq(w.timeouts, 1, Len(w.timeouts) - 1)
                 ELSE w.timeouts
  IN  [w EXCEPT !.debounceTimer = TRUE,
                !.timeouts = Append(cleared, [reg |-> r, uri |-> d])]

\* The registrations whose change listener takes an event for document d,
\* in the order they subscribed
ChangeListeners(w, d) ==
  {s.reg : s \in {x \in w.disposables : x.kind = "change" /\ x.uri = d}}

\* Delete listeners that do not compare the deleted uri with their own.
DeleteListenersAnyUri(w, d) ==
  {s.reg : s \in {x \in w.disposables : x.kind = "delete"}}

\* if (deletedUri.toString() === uri.toString()): the registrations whose
\* delete listener calls onDeleted for the deletion of d
DeleteListeners(w, d) ==
  {s.reg : s \in {x \in w.disposables : x.kind = "delete" /\ x.uri = d}}

\* A call of a callback with no try around it.
CallUnguarded(threw, onErrorThrows) ==
  [reported |-> FALSE, escaped |-> threw]

\* try { callback } catch (error) { if (onError) { onError(error) } }: the
\* error is handed to onError, and leaves the watcher only when onError
\* throws in its turn
CallGuarded(threw, onErrorThrows) ==
  [reported |-> threw, escaped |-> threw /\ onErrorThrows]

\* The scheduled callback is left by an exception: fn() threw, so
\* this.debounceTimer = undefined is not reached
TimeoutEscapes(w) == [w EXCEPT !.timeouts = Tail(@)]

\* onDidChangeTextDocument fires: every listener of the instance whose uri
\* matches debounces, one after the other
RECURSIVE OnDidChangeTextDocumentFrom(_, _, _)
OnDidChangeTextDocumentFrom(w, d, r) ==
  IF r > w.regs THEN w
  ELSE OnDidChangeTextDocumentFrom(
         IF r \in ChangeListeners(w, d) THEN DebounceChange(w, r, d) ELSE w,
         d, r + 1)

OnDidChangeTextDocument(w, d) == OnDidChangeTextDocumentFrom(w, d, 1)

\* The host runs the oldest scheduled callback: fn(), then
\* this.debounceTimer = undefined
TimeoutRuns(w) ==
  [w EXCEPT !.timeouts = Tail(@), !.debounceTimer = FALSE]

\* A dispose that forgets the pending timer.
DisposeWatcherKeepTimer(w) == [w EXCEPT !.disposables = {}]

\* dispose(): clear the pending timer, dispose every disposable
DisposeWatcher(w) ==
  [w EXCEPT !.debounceTimer = FALSE,
            !.timeouts = IF w.debounceTimer /\ Len(w.timeouts) > 0
                         THEN SubSeq(w.timeouts, 1, Len(w.timeouts) - 1)
                         ELSE w.timeouts,
            !.disposables = {}]

(***************************************************************************)
(* One FileWatcher instance driven directly: watch, edits, the debounce    *)
(* timer, deletions, dispose                                               *)
(***************************************************************************)
\* The documents this instance is pointed at
WatchedDocs == {"dA", "dB"}

\* The last MaxBurst entries of a sequence
Latest(q) == IF Len(q) > MaxBurst THEN SubSeq(q, Len(q) - MaxBurst + 1, Len(q)) ELSE q

\* event.document.getText(), read when the timer runs
ChangedText(texts, d) == texts[d]

WatcherWatch(d, fsWatcherThrows) ==
  /\ fw.regs < MaxRegs
  /\ fw' = Watch(fw, d, fsWatcherThrows)
  /\ LET call == CallGuarded(fsWatcherThrows, FALSE) IN
     lastOp' = [Op("watch", d) EXCEPT !.regs = {fw.regs + 1},
                                     !.flag = fsWatcherThrows,
                                     !.threw = fsWatcherThrows,
                                     !.reported = call.reported,
                                     !.escaped = call.escaped]
  /\ UNCHANGED <<docText, burst, cancelled>>

\* The user edits document d: its text becomes t and the host fires
\* onDidChangeTextDocument.
WatcherEdit(d, t) ==
  /\ docText' = [docText EXCEPT ![d] = t]
  /\ fw' = OnDidChangeTextDocument(fw, d)
  /\ burst' = IF ChangeListeners(fw, d) # {}
              THEN Latest(Append(burst, [uri |-> d, text |-> t]))
              ELSE burst
  /\ lastOp' = [Op("edit", d) EXCEPT !.text = t,
                                    !.pending = Len(fw.timeouts) > 0]
  /\ UNCHANGED cancelled

\* The debounce delay of the oldest scheduled callback has passed: onChanged
\* is called with the document's text.
\* onChanged may throw, and so may the onError that is told of it.
WatcherTimeout(throws, onErrorThrows) ==
  /\ Len(fw.timeouts) > 0
  /\ onErrorThrows => throws
  /\ LET t == fw.timeouts[1]
         call == CallGuarded(throws, onErrorThrows)
     IN  /\ lastOp' = [Op("changed", t.uri) EXCEPT
                         !.text = ChangedText(docText, t.uri),
                         !.regs = {t.reg},
                         !.burst = burst,
                         !.threw = throws,
                         !.onErrorThrew = onErrorThrows,
                         !.reported = call.reported,
                         !.escaped = call.escaped]
         /\ fw' = IF call.escaped THEN TimeoutEscapes(fw) ELSE TimeoutRuns(fw)
  /\ burst' = <<>>
  /\ UNCHANGED <<docText, cancelled>>

\* The file of document d is deleted: onDidDelete fires, onDeleted is called
\* by every delete listener whose uri matches.
\* onDeleted may throw, and so may the onError that is told of it.
WatcherFileDeleted(d, throws, onErrorThrows) ==
  /\ onErrorThrows => throws
  /\ throws => DeleteListeners(fw, d) # {}
  /\ LET call == CallGuarded(throws, onErrorThrows) IN
     lastOp' = [Op(IF DeleteListeners(fw, d) # {} THEN "deleted" ELSE "unlink", d)
                  EXCEPT !.regs = DeleteListeners(fw, d),
                         !.pending = Len(fw.timeouts) > 0,
                         !.threw = throws,
                         !.onErrorThrew = onErrorThrows,
                         !.reported = call.reported,
                         !.escaped = call.escaped]
  /\ UNCHANGED <<fw, docText, burst, cancelled>>

\* dispose(), called directly or through the disposable watch() returned
WatcherDispose ==
  /\ fw' = DisposeWatcher(fw)
  /\ cancelled' = cancelled \cup (1 .. fw.regs)
  /\ burst' = <<>>
  /\ lastOp' = [Op("dispose", "-") EXCEPT !.pending = Len(fw.timeouts) > 0,
                                         !.regs = (1 .. fw.regs) \ cancelled,
                                         !.flag = (DisposeWatcher(fw) = fw)]
  /\ UNCHANGED docText

\* The disposable that watch() returned to registration r is disposed:
\* new vscode.Disposable(() => { this.dispose(); })
WatcherHandleDispose(r) ==
  /\ r \in 1 .. fw.regs
  /\ fw' = DisposeWatcher(fw)
  /\ cancelled' = cancelled \cup (1 .. fw.regs)
  /\ burst' = <<>>
  /\ lastOp' = [Op("disposeHandle", "-") EXCEPT
                  !.pending = Len(fw.timeouts) > 0,
                  !.regs = {r}]
  /\ UNCHANGED docText

(***************************************************************************)
(* PreviewManager: state                                                   *)
(***************************************************************************)
\* vscode.ViewColumn
ViewColumnBeside == -2
ViewColumnOne == 1
ViewColumnTwo == 2

\* Columns a surface can really be in
RealColumns == {ViewColumnOne, ViewColumnTwo}

\* The view of a surface: nothing yet, the error view, or the live view that
\* points the rendering component at url
NoView == [kind |-> "none", url |-> NoUrl]

\* previews.get(uri) === undefined
NoPreview ==
  [exists |-> FALSE, lastViewColumn |-> 0,
   fileWatcher |-> NewFileWatcher, view |-> NoView]

(***************************************************************************)
(* PreviewManager: operations                                              *)
(*                                                                         *)
(* The operations work on the record m of everything they touch:           *)
(*   previews, columns (lastColumnPositions), contentMap (of the           *)
(*   HttpServer), surfaces and leaked (kept by the host).                  *)
(***************************************************************************)
Manager ==
  [previews |-> previews, columns |-> lastColumnPositions,
   contentMap |-> contentMap, surfaces |-> surfaces, leaked |-> leaked]

\* Outcome of reading panel.viewColumn that stands for "the getter threw".
\* The getter of a surface that is already disposed may throw: the handler of
\* onDidDispose runs after the surface is gone.
ReadThrows == -100

\* config.get('previewColumn', 'beside')
Preferences == {"beside", "active", "left"}

\* vscode.window.activeTextEditor: none, or an editor and its viewColumn
\* (0 when the editor has none)
Editors ==
  {[present |-> FALSE, viewColumn |-> 0],
   [present |-> TRUE, viewColumn |-> 0],
   [present |-> TRUE, viewColumn |-> ViewColumnOne]}

\* A default that is Beside whatever the editor and the preference.
GetPreviewColumnBeside(editor, preference) == ViewColumnBeside

\* getPreviewColumn()
GetPreviewColumn(editor, preference) ==
  IF ~editor.present THEN ViewColumnTwo
  ELSE IF preference = "active"
       THEN (IF editor.viewColumn # 0 THEN editor.viewColumn ELSE ViewColumnOne)
       ELSE ViewColumnBeside

\* A choice of column that ignores the saved position.
ColumnToUseNoMemory(hint, saved, default) == IF hint # 0 THEN hint ELSE default

\* viewColumn || this.lastColumnPositions.get(documentUri) || this.getPreviewColumn()
ColumnToUse(hint, saved, default) ==
  IF hint # 0 THEN hint ELSE IF saved # 0 THEN saved ELSE default

\* A watcher with nothing subscribed and nothing scheduled can do nothing more.
Inert(w) == w.disposables = {} /\ w.timeouts = <<>>

\* A watcher that can still act stays with the host.
KeepIfLive(q, w) == IF Inert(w) THEN q ELSE Append(q, w)

\* disposePreview(documentUri); read is what preview.panel.viewColumn gave:
\* a column, 0 for undefined, or ReadThrows
DisposePreview(m, d, read) ==
  LET preview == m.previews[d] IN
  IF ~preview.exists THEN m
  ELSE IF read = ReadThrows
  THEN \* the outer catch: only this.previews.delete(documentUri)
       [m EXCEPT !.previews[d] = NoPreview,
                 !.leaked = KeepIfLive(@, preview.fileWatcher)]
  ELSE [m EXCEPT !.columns[d] = IF read # 0 THEN read ELSE @,
                 !.contentMap = RemoveContentMap(@, d),
                 !.leaked = KeepIfLive(@, DisposeWatcher(preview.fileWatcher)),
                 !.previews[d] = NoPreview]

\* The error view: getHtmlContent(webview, extensionUri, 'about:blank', errorMessage)
ErrorView == [kind |-> "error", url |-> NoUrl]

\* The live view: getHtmlContent(webview, extensionUri, contentUrl)
LiveView(url) == [kind |-> "live", url |-> url]

\* fileReader.readFromDocument(document): document.getText() of an open
\* document gives its text, so the read succeeds
ReadFromDocument(text) == [success |-> TRUE, content |-> text]

\* if (!readResult.success || !readResult.content)
Unreadable(content) == content = ""

\* A createPreview that does nothing while the HttpServer has no port.
CreatePreviewNeedsPort(m, d, viewColumn, content, p) ==
  IF p = 0 THEN m
  ELSE [m EXCEPT !.surfaces[d] = @ + 1,
                 !.previews[d] = [exists |-> TRUE,
                                  lastViewColumn |-> viewColumn,
                                  fileWatcher |-> Watch(NewFileWatcher, d, FALSE),
                                  view |-> ErrorView],
                 !.columns[d] = viewColumn]

\* createPreview(document, viewColumn); content is document.getText(), p the
\* port of the HttpServer at this moment
CreatePreview(m, d, viewColumn, content, p) ==
  LET preview ==
        [exists |-> TRUE,
         lastViewColumn |-> viewColumn,
         fileWatcher |-> Watch(NewFileWatcher, d, FALSE),
         view |-> IF Unreadable(content) THEN ErrorView
                  ELSE LiveView(RegisterContentUrl(p, d))]
  IN  [m EXCEPT !.surfaces[d] = @ + 1,
                !.previews[d] = preview,
                !.columns[d] = viewColumn,
                !.contentMap = IF Unreadable(content) THEN @
                               ELSE RegisterContentMap(@, d, content)]

\* A change handler that updates the entry there is and registers nothing.
ChangeHandlerMapUpdateOnly(map, d, content) ==
  IF DocIds[d] \in DOMAIN map THEN UpdateContentMap(map, d, content) ELSE map

\* The change handler given to fileWatcher.watch: updateContent,
\* registerContent, then the view is generated again
ChangeHandlerMap(map, d, content) ==
  RegisterContentMap(UpdateContentMap(map, d, content), d, content)

\* A column-change handler that writes the session and not the memory.
ViewStateChangedSessionOnly(m, d, column) ==
  IF column # 0 /\ m.previews[d].exists
  THEN [m EXCEPT !.previews[d].lastViewColumn = column]
  ELSE m

\* The column-change handler (onDidChangeViewState)
ViewStateChanged(m, d, column) ==
  IF column # 0 /\ m.previews[d].exists
  THEN [m EXCEPT !.previews[d].lastViewColumn = column,
                 !.columns[d] = column]
  ELSE m

\* What reading panel.viewColumn may give for the surface of d's session.
\* The host reports every change of column through onDidChangeViewState, so
\* the surface is in the column it last reported, or in none that is known
\* (undefined, 0); once the surface is gone the getter may throw.
ViewColumnReads(m, d, surfaceGone) ==
  {0} \cup ({m.previews[d].lastViewColumn} \cap RealColumns)
      \cup (IF surfaceGone /\ Len(m.leaked) < MaxLeaked THEN {ReadThrows} ELSE {})

\* dispose() has run: the constructor sets this.server, only dispose() clears it
ManagerDisposed == server = "undefined"

\* The response the view of d gets when it fetches its content
Served(map, d) == HandleRequest("GET", RegisterContentUrl(0, d).path, map)

SetManager(m) ==
  /\ previews' = m.previews
  /\ lastColumnPositions' = m.columns
  /\ contentMap' = m.contentMap
  /\ surfaces' = m.surfaces
  /\ leaked' = m.leaked

\* A reveal that looks at the hint only.
RevealColumnHintOnly(hint, lastViewColumn) == hint

\* const columnToUse = viewColumn || existingPreview.lastViewColumn
RevealColumn(hint, lastViewColumn) == IF hint # 0 THEN hint ELSE lastViewColumn

\* A lookup that never finds a session.
ExistingPreviewNone(m, d) == FALSE

\* const existingPreview = this.previews.get(documentUri); if (existingPreview)
ExistingPreview(m, d) == m.previews[d].exists

NoEditor == [present |-> FALSE, viewColumn |-> 0]

\* The hints the commands and callers pass: none, Two, Beside
Hints == {0, ViewColumnTwo, ViewColumnBeside}

\* createOrShowPreview(document, viewColumn?)
CreateOrShowPreview(d, hint, editor, preference, revealThrows) ==
  /\ ~ManagerDisposed
  /\ IF ExistingPreview(Manager, d) /\ ~revealThrows
     THEN \* existingPreview.panel.reveal(columnToUse)
          /\ lastOp' = [Op("reveal", d) EXCEPT
                          !.hint = hint,
                          !.flag = (lastOp.op = "create" /\ lastOp.doc = d),
                          !.column = RevealColumn(hint, previews[d].lastViewColumn)]
          /\ UNCHANGED <<previews, lastColumnPositions, contentMap, surfaces,
                         leaked>>
     ELSE IF ExistingPreview(Manager, d)
     THEN \* reveal threw: the surface was torn down behind the manager's back
          \E read \in ViewColumnReads(Manager, d, TRUE) :
            LET gone == [Manager EXCEPT !.surfaces[d] = @ - 1]
                m1 == DisposePreview(gone, d, read)
                column == ColumnToUse(hint, m1.columns[d],
                                      GetPreviewColumn(editor, preference))
            IN  /\ SetManager(CreatePreview(m1, d, column, docText[d], port))
                /\ lastOp' = [Op("recreate", d) EXCEPT
                                !.hint = hint,
                                !.column = column,
                                !.editor = editor,
                                !.preference = preference,
                                !.saved = m1.columns[d],
                                !.text = docText[d]]
     ELSE LET column == ColumnToUse(hint, lastColumnPositions[d],
                                    GetPreviewColumn(editor, preference))
          IN  /\ ~revealThrows
              /\ SetManager(CreatePreview(Manager, d, column, docText[d], port))
              /\ lastOp' = [Op("create", d) EXCEPT
                              !.hint = hint,
                              !.column = column,
                              !.editor = editor,
                              !.preference = preference,
                              !.saved = lastColumnPositions[d],
                              !.text = docText[d],
                              !.flag = (lastOp.op = "close" /\ lastOp.doc = d)]
  /\ UNCHANGED <<server, port, docText>>

\* The user closes the surface of d's session: onDidDispose, disposePreview.
PanelClose(d) ==
  /\ previews[d].exists
  /\ \E read \in ViewColumnReads(Manager, d, TRUE) :
       /\ SetManager(DisposePreview([Manager EXCEPT !.surfaces[d] = @ - 1], d, read))
       /\ lastOp' = [Op("close", d) EXCEPT
                       !.column = IF read \in RealColumns THEN read
                                  ELSE previews[d].lastViewColumn,
                       !.flag = (read = ReadThrows)]
  /\ UNCHANGED <<server, port, docText>>

\* The host reports a new view state of d's surface: its column is now c
\* (0: not in a column).
ViewStateChange(d, c) ==
  /\ previews[d].exists
  /\ SetManager(ViewStateChanged(Manager, d, c))
  /\ lastOp' = [Op("viewState", d) EXCEPT !.column = c]
  /\ UNCHANGED <<server, port, docText>>

\* The user edits document d: every subscribed watcher of d debounces.
Edit(d, t) ==
  /\ docText' = [docText EXCEPT ![d] = t]
  /\ previews' = [previews EXCEPT
                    ![d].fileWatcher = OnDidChangeTextDocument(@, d)]
  /\ leaked' = [i \in DOMAIN leaked |-> OnDidChangeTextDocument(leaked[i], d)]
  /\ lastOp' = Op("edit", d)
  /\ UNCHANGED <<server, port, contentMap, lastColumnPositions, surfaces>>

\* The debounce timer of the watcher of d's session runs: the change handler
\* registers the text and generates the view again.
TimerFires(d) ==
  /\ previews[d].exists
  /\ Len(previews[d].fileWatcher.timeouts) > 0
  /\ LET content == ChangedText(docText, d) IN
     /\ contentMap' = ChangeHandlerMap(contentMap, d, content)
     /\ previews' = [previews EXCEPT
                       ![d].fileWatcher = TimeoutRuns(@),
                       ![d].view = LiveView(RegisterContentUrl(port, d))]
     /\ lastOp' = [Op("changed", d) EXCEPT
                     !.text = content,
                     !.flag = (previews[d].view = ErrorView)]
  /\ UNCHANGED <<server, port, docText, lastColumnPositions, surfaces, leaked>>

\* The timer of a watcher that outlived its session runs: its change handler
\* still registers the text; writing the view of the surface that is gone
\* either throws out of the callback (debounceTimer keeps its handle) or not.
LeakedTimerFires(i, throws) ==
  /\ i \in DOMAIN leaked
  /\ Len(leaked[i].timeouts) > 0
  /\ LET d == leaked[i].timeouts[1].uri
         content == ChangedText(docText, d)
     IN  /\ contentMap' = ChangeHandlerMap(contentMap, d, content)
         /\ lastOp' = [Op("changedLeaked", d) EXCEPT !.text = content,
                                                    !.flag = throws]
  /\ leaked' = [leaked EXCEPT
                  ![i] = IF throws THEN [@ EXCEPT !.timeouts = Tail(@)]
                         ELSE TimeoutRuns(@)]
  /\ UNCHANGED <<server, port, docText, previews, lastColumnPositions, surfaces>>

\* The onDeleted callback of d's session: one 'error' message to the view,
\* one warning to the user, nothing else
OnDeleted(m, d) == m

\* The delete listeners for d of the watchers that outlived their session:
\* each still calls its onDeleted, which posts to a surface that is gone and
\* warns the user
RECURSIVE LeakedDeleteListeners(_, _)
LeakedDeleteListeners(q, d) ==
  IF q = <<>> THEN 0
  ELSE Cardinality(DeleteListeners(Head(q), d)) + LeakedDeleteListeners(Tail(q), d)

\* The file of d is deleted: onDidDelete fires in every watcher that is
\* subscribed for d.  The delete handler of d's session posts an 'error'
\* message to the view and warns the user; regs are the listeners of the
\* session's watcher, warnings counts the warnings shown.
FileDeleted(d) ==
  /\ previews[d].exists
  /\ DeleteListeners(previews[d].fileWatcher, d) # {}
  /\ SetManager(OnDeleted(Manager, d))
  /\ lastOp' = [Op("deleted", d) EXCEPT
                  !.text = "error",
                  !.regs = DeleteListeners(previews[d].fileWatcher, d),
                  !.warnings =
                    Cardinality(DeleteListeners(previews[d].fileWatcher, d))
                      + LeakedDeleteListeners(leaked, d),
                  !.pending = Len(previews[d].fileWatcher.timeouts) > 0]
  /\ UNCHANGED <<server, port, docText>>

\* An updatePreview that stores the text it read in the registry.
UpdatePreviewMapStores(map, exists, d, content) ==
  IF exists /\ ~Unreadable(content) THEN UpdateContentMap(map, d, content)
  ELSE map

\* The registry after updatePreview(document): the text read goes into the
\* message only, no statement of the method calls the HttpServer
UpdatePreviewMap(map, exists, d, content) == map

\* updatePreview(document): posts 'update' with the text, or 'error'
UpdatePreview(d) ==
  /\ ~ManagerDisposed
  /\ contentMap' = UpdatePreviewMap(contentMap, previews[d].exists, d, docText[d])
  /\ lastOp' = [Op("updatePreview", d) EXCEPT
                  !.flag = previews[d].exists,
                  !.method = IF ~previews[d].exists THEN ""
                             ELSE IF Unreadable(docText[d]) THEN "error"
                             ELSE "update",
                  !.text = IF previews[d].exists THEN docText[d] ELSE ""]
  /\ UNCHANGED <<server, port, pmVars, hostVars>>

\* dispose(): every surface is disposed and its session removed, the
\* sessions are cleared, the HttpServer is stopped.  reads gives, per
\* document, the outcome of reading its surface's column.
RECURSIVE DisposeEach(_, _, _)
DisposeEach(m, todo, reads) ==
  IF todo = {} THEN m
  ELSE LET d == CHOOSE x \in todo : TRUE IN
       DisposeEach(
         IF m.previews[d].exists
         THEN DisposePreview([m EXCEPT !.surfaces[d] = @ - 1], d, reads[d])
         ELSE m,
         todo \ {d}, reads)

Dispose ==
  /\ \E reads \in [Docs -> RealColumns \cup {0, ReadThrows}] :
       /\ \A d \in Docs : reads[d] \in (IF previews[d].exists
                                         THEN ViewColumnReads(Manager, d, TRUE)
                                         ELSE {0})
       /\ Cardinality({d \in Docs : reads[d] = ReadThrows}) + Len(leaked) <= MaxLeaked
       /\ LET m == DisposeEach(Manager, Docs, reads) IN
          /\ previews' = [d \in Docs |-> NoPreview]
          /\ lastColumnPositions' = m.columns
          /\ surfaces' = m.surfaces
          /\ leaked' = m.leaked
          /\ contentMap' = IF server # "undefined" THEN EmptyMap ELSE m.contentMap
  /\ server' = "undefined"
  /\ lastOp' = Op("disposeAll", "-")
  /\ UNCHANGED <<port, docText>>

\* The steps of createPreview that may be left by an exception once the
\* session is stored: fileWatcher.watch (subscribing to document changes),
\* and the assignment of the generated view to panel.webview.html
FailureStages == {"watch", "view"}

\* createPreview up to the exception: the surface is created, the session
\* stored and the column saved; at "view" the watcher is subscribed and the
\* content, when readable, is registered
CreatePreviewUpTo(m, d, viewColumn, content, stage) ==
  LET preview ==
        [exists |-> TRUE,
         lastViewColumn |-> viewColumn,
         fileWatcher |-> IF stage = "watch" THEN NewFileWatcher
                         ELSE Watch(NewFileWatcher, d, FALSE),
         view |-> NoView]
  IN  [m EXCEPT !.surfaces[d] = @ + 1,
                !.previews[d] = preview,
                !.columns[d] = viewColumn,
                !.contentMap = IF stage = "watch" \/ Unreadable(content) THEN @
                               ELSE RegisterContentMap(@, d, content)]

\* A catch that shows the error and throws it again without cleaning up.
CreatePreviewCatchRethrowsOnly(m, d, read) == m

\* The catch of createPreview: showErrorMessage, this.disposePreview(documentUri),
\* throw error.  The surface is not disposed, so read, what its viewColumn
\* gives, is a column or undefined.
CreatePreviewCatch(m, d, read) == DisposePreview(m, d, read)

\* createOrShowPreview(document) for a document without a session, whose
\* createPreview is left by an exception at the given stage; the catch of
\* createOrShowPreview throws the error again
CreateOrShowPreviewFails(d, stage) ==
  /\ ~ManagerDisposed
  /\ ~ExistingPreview(Manager, d)
  /\ surfaces[d] < MaxSurfaces
  /\ LET column == ColumnToUse(0, lastColumnPositions[d],
                               GetPreviewColumn(NoEditor, "beside"))
         m1 == CreatePreviewUpTo(Manager, d, column, docText[d], stage)
     IN  \E read \in {0} \cup ({column} \cap RealColumns) :
           /\ SetManager(CreatePreviewCatch(m1, d, read))
           /\ lastOp' = [Op("createFailed", d) EXCEPT
                           !.method = stage,
                           !.column = column,
                           !.text = docText[d],
                           !.flag = DocIds[d] \in DOMAIN m1.contentMap,
                           !.threw = TRUE]
  /\ UNCHANGED <<server, port, docText>>

\* The HttpServer started by the constructor is listening / has failed.
ServerListening ==
  /\ HttpListening
  /\ UNCHANGED <<pmVars, hostVars>>

\* The promise of start() is rejected: the catch of the constructor logs
\* the error and shows one error message
ServerFailed ==
  /\ server = "binding"
  /\ server' = "failed"
  /\ lastOp' = [Op("failed", "-") EXCEPT !.reported = TRUE]
  /\ UNCHANGED <<port, contentMap, owners, pmVars, hostVars>>

(***************************************************************************)
(* The view: the markup getHtmlContent produces and the script in it.      *)
(***************************************************************************)
\* A webview whose html has not been assigned
NoDocument == [rendered |-> "-"]

\* str.split('?')[0]
RECURSIVE BeforeQuery(_)
BeforeQuery(str) ==
  IF str = <<>> \/ Head(str) = 63 THEN <<>>
  ELSE <<Head(str)>> \o BeforeQuery(Tail(str))

\* const baseUrl = currentUrl.split('?')[0]
BaseUrl(currentUrl) == [currentUrl EXCEPT !.path = BeforeQuery(@)]

\* errorMessage ? ... : ... in the template
Truthy(errorMessage) == errorMessage # Undefined /\ errorMessage # ""

\* getHtmlContent(webview, extensionUri, contentUrl, errorMessage): the
\* document the markup builds.  errorContainer and elements.display are the
\* display styles of #error-container and of the elements-api element,
\* inDocument tells whether the element the script refers to as elementsApi
\* is in the document.  rendered and handled are history: the errorMessage
\* of the rendering, and the last case of the switch that ran since.
\* The script ends with vscode.postMessage({ type: 'ready' }): outbox holds
\* the messages posted and not yet received by the extension, posts counts
\* the messages posted since the rendering.
GetHtmlContent(contentUrl, errorMessage) ==
  [errorContainer |-> IF Truthy(errorMessage) THEN "block" ELSE "none",
   errorText |-> IF Truthy(errorMessage) THEN errorMessage ELSE "",
   elements |-> [display |-> IF Truthy(errorMessage) THEN "none" ELSE "block",
                 apiDescriptionUrl |-> contentUrl,
                 inDocument |-> TRUE],
   rendered |-> errorMessage,
   handled |-> "none",
   outbox |-> <<[type |-> "ready", message |-> ""]>>,
   posts |-> 1]

\* A showError that leaves the component as it is.
ShowErrorOverComponent(v, message) ==
  [v EXCEPT !.errorText = message, !.errorContainer = "block"]

\* function showError(message)
ShowError(v, message) ==
  [v EXCEPT !.errorText = message,
            !.errorContainer = "block",
            !.elements.display = "none"]

\* case 'update': the element is taken out of its parent and a new one with
\* the cache-busting URL and display: block is put in its place; a parent of
\* null makes removeChild throw before anything changed
UpdateCase(v) ==
  IF ~v.elements.inDocument
  THEN [ShowError(v, "Failed to update preview") EXCEPT !.handled = "update failed"]
  ELSE [v EXCEPT !.elements = [display |-> "block",
                               apiDescriptionUrl |->
                                 WithCacheBust(BaseUrl(v.elements.apiDescriptionUrl)),
                               inDocument |-> TRUE],
                 !.errorContainer = "none",
                 !.handled = "update"]

\* window.addEventListener('message', ...): data is event.data, and
\* reading message.type throws when it is null or undefined
MessageListener(v, data) ==
  IF ~data.isObject
  THEN [ShowError(v, "An unexpected error occurred") EXCEPT !.handled = "threw"]
  ELSE CASE data.type = "update" -> UpdateCase(v)
         [] data.type = "error" ->
              [ShowError(v, data.message) EXCEPT !.handled = "error"]
         [] OTHER -> v

\* A fault handler that reports the fault to the extension.
WindowFaultReported(v, kind) ==
  [view |-> [v EXCEPT !.outbox = Append(@, [type |-> "error", message |-> kind]),
                      !.posts = @ + 1],
   prevented |-> TRUE]

\* window.addEventListener('error' / 'unhandledrejection', ...): the fault is
\* logged and event.preventDefault() is called
WindowFault(v, kind) == [view |-> v, prevented |-> TRUE]

\* The handler given to panel.webview.onDidReceiveMessage: the error message
\* it shows the user, "" when it shows none
OnDidReceiveMessage(message) ==
  IF message.type = "error" THEN "Preview error: " ELSE ""

\* The contentUrl arguments of getHtmlContent in createPreview
ContentUrls == {UrlOf(p, DocIds[d]) : p \in Ports, d \in Docs} \cup {NoUrl}

\* The errorMessage arguments of getHtmlContent in createPreview: none, or
\* readResult.error?.getUserMessage() || 'Failed to read file content'
ErrorMessages == {Undefined, "File not found: /a/api.yaml", "Failed to read file content"}

\* The messages the extension posts to a webview
ViewMessages ==
  {[isObject |-> TRUE, type |-> t.type, message |-> t.message] :
     t \in {[type |-> "update", message |-> ""],
            [type |-> "options", message |-> ""],
            [type |-> "error", message |-> "The file has been deleted."],
            [type |-> "error", message |-> "File watcher error: boom"]}}

\* panel.webview.html = getHtmlContent(...)
ViewRender(contentUrl, errorMessage) ==
  /\ view' = GetHtmlContent(contentUrl, errorMessage)
  /\ lastOp' = [op |-> "render", contentUrl |-> contentUrl,
                errorMessage |-> errorMessage]

\* A message of the extension reaches the script
ViewMessage(data) ==
  /\ view # NoDocument
  /\ view' = MessageListener(view, data)
  /\ lastOp' = [op |-> "message", data |-> data]

\* An uncaught error or an unhandled rejection inside the view
ViewFault(kind) ==
  /\ view # NoDocument
  /\ view' = WindowFault(view, kind).view
  /\ lastOp' = [op |-> "fault", kind |-> kind,
                prevented |-> WindowFault(view, kind).prevented]

\* A message the view posted reaches the extension
ViewPostReceived ==
  /\ view # NoDocument
  /\ view.outbox # <<>>
  /\ view' = [view EXCEPT !.outbox = Tail(@)]
  /\ lastOp' = [op |-> "received", message |-> Head(view.outbox),
                shown |-> OnDidReceiveMessage(Head(view.outbox))]

(***************************************************************************)
(* Initial states                                                          *)
(***************************************************************************)
\* new HttpServer()
InitHttpServer ==
  /\ server = "undefined"
  /\ port = 0
  /\ contentMap = EmptyMap

InitHistory ==
  /\ lastOp = Op("init", "-")
  /\ owners = {}
  /\ burst = <<>>
  /\ cancelled = {}

InitIdle ==
  /\ previews = [d \in Docs |-> NoPreview]
  /\ lastColumnPositions = [d \in Docs |-> 0]
  /\ surfaces = [d \in Docs |-> 0]
  /\ leaked = <<>>
  /\ fw = NewFileWatcher
  /\ view = NoDocument

\* The HttpServer on its own, before start()
InitHttp ==
  /\ InitHttpServer
  /\ InitHistory
  /\ InitIdle
  /\ docText = [d \in Docs |-> "openapi: 3.0.0"]

NextHttp ==
  \/ HttpStart /\ UNCHANGED <<pmVars, hostVars, fw, burst, cancelled, view>>
  \/ HttpListening /\ UNCHANGED <<pmVars, hostVars, fw, burst, cancelled, view>>
  \/ HttpFailed /\ UNCHANGED <<pmVars, hostVars, fw, burst, cancelled, view>>
  \/ \E d \in Docs, t \in Texts :
       HttpRegister(d, t) /\ UNCHANGED <<pmVars, hostVars, fw, burst, cancelled, view>>
  \/ \E d \in Docs, t \in Texts :
       HttpUpdate(d, t) /\ UNCHANGED <<pmVars, hostVars, fw, burst, cancelled, view>>
  \/ \E d \in Docs :
       HttpRemove(d) /\ UNCHANGED <<pmVars, hostVars, fw, burst, cancelled, view>>
  \/ \E m \in {"GET", "POST"}, url \in RequestUrls(port) :
       HttpRequest(m, url) /\ UNCHANGED <<pmVars, hostVars, fw, burst, cancelled, view>>
  \/ HttpDispose /\ UNCHANGED <<pmVars, hostVars, fw, burst, cancelled, view>>

SpecHttp == InitHttp /\ [][NextHttp]_vars

\* new PreviewManager(context): no session, the server is binding its port
Init ==
  /\ server = "binding"
  /\ port = 0
  /\ contentMap = EmptyMap
  /\ InitHistory
  /\ InitIdle
  /\ docText = [d \in Docs |-> "openapi: 3.0.0"]

\* One document, every input: the life of a session from the start of the
\* extension to its end.
SoloDocs == {"dA"}

Next ==
  \/ ServerListening /\ UNCHANGED <<fw, burst, cancelled, view>>
  \/ ServerFailed /\ UNCHANGED <<fw, burst, cancelled, view>>
  \/ \E d \in SoloDocs, h \in Hints, e \in Editors, pr \in Preferences, x \in BOOLEAN :
       CreateOrShowPreview(d, h, e, pr, x) /\ UNCHANGED <<fw, owners, burst, cancelled, view>>
  \/ \E d \in SoloDocs : PanelClose(d) /\ UNCHANGED <<fw, owners, burst, cancelled, view>>
  \/ \E d \in SoloDocs, c \in RealColumns \cup {0} :
       ViewStateChange(d, c) /\ UNCHANGED <<fw, owners, burst, cancelled, view>>
  \/ \E d \in SoloDocs, t \in Texts : Edit(d, t) /\ UNCHANGED <<fw, owners, burst, cancelled, view>>
  \/ \E d \in SoloDocs : TimerFires(d) /\ UNCHANGED <<fw, owners, burst, cancelled, view>>
  \/ \E i \in 1 .. MaxLeaked, x \in BOOLEAN :
       LeakedTimerFires(i, x) /\ UNCHANGED <<fw, owners, burst, cancelled, view>>
  \/ \E d \in SoloDocs : FileDeleted(d) /\ UNCHANGED <<fw, owners, burst, cancelled, view>>
  \/ \E d \in SoloDocs : UpdatePreview(d) /\ UNCHANGED <<fw, owners, burst, cancelled, view>>
  \/ Dispose /\ UNCHANGED <<fw, owners, burst, cancelled, view>>

Spec == Init /\ [][Next]_vars

\* Two documents of one directory, once the server listens; previews are
\* opened without a column hint and with no editor active.
PairDocs == {"dA", "dB"}

PairTexts == {"openapi: 3.0.0", "swagger: 2.0"}

InitPair ==
  /\ server = "listening"
  /\ port \in Ports
  /\ contentMap = EmptyMap
  /\ InitHistory
  /\ InitIdle
  /\ docText = [d \in Docs |-> "openapi: 3.0.0"]

NextPair ==
  \/ \E d \in PairDocs :
       CreateOrShowPreview(d, 0, NoEditor, "beside", FALSE)
         /\ UNCHANGED <<fw, owners, burst, cancelled, view>>
  \/ \E d \in PairDocs : PanelClose(d) /\ UNCHANGED <<fw, owners, burst, cancelled, view>>
  \/ \E d \in PairDocs :
       ViewStateChange(d, ViewColumnOne) /\ UNCHANGED <<fw, owners, burst, cancelled, view>>
  \/ \E d \in PairDocs, t \in PairTexts : Edit(d, t) /\ UNCHANGED <<fw, owners, burst, cancelled, view>>
  \/ \E d \in PairDocs : TimerFires(d) /\ UNCHANGED <<fw, owners, burst, cancelled, view>>
  \/ \E i \in 1 .. MaxLeaked, x \in BOOLEAN :
       LeakedTimerFires(i, x) /\ UNCHANGED <<fw, owners, burst, cancelled, view>>
  \/ \E d \in PairDocs : UpdatePreview(d) /\ UNCHANGED <<fw, owners, burst, cancelled, view>>
  \/ Dispose /\ UNCHANGED <<fw, owners, burst, cancelled, view>>

SpecPair == InitPair /\ [][NextPair]_vars

\* One document whose createPreview may fail after the session is stored
NextRollback ==
  \/ \E d \in SoloDocs :
       /\ previews[d].exists \/ surfaces[d] < MaxSurfaces
       /\ CreateOrShowPreview(d, 0, NoEditor, "beside", FALSE)
       /\ UNCHANGED <<fw, owners, burst, cancelled, view>>
  \/ \E d \in SoloDocs, stage \in FailureStages :
       CreateOrShowPreviewFails(d, stage)
         /\ UNCHANGED <<fw, owners, burst, cancelled, view>>
  \/ \E d \in SoloDocs : PanelClose(d) /\ UNCHANGED <<fw, owners, burst, cancelled, view>>
  \/ \E d \in SoloDocs, c \in RealColumns :
       ViewStateChange(d, c) /\ UNCHANGED <<fw, owners, burst, cancelled, view>>
  \/ \E d \in SoloDocs, t \in Texts : Edit(d, t) /\ UNCHANGED <<fw, owners, burst, cancelled, view>>
  \/ \E d \in SoloDocs : TimerFires(d) /\ UNCHANGED <<fw, owners, burst, cancelled, view>>

SpecRollback == InitPair /\ [][NextRollback]_vars

\* A FileWatcher on its own, just constructed
InitWatcher ==
  /\ InitHttpServer
  /\ InitHistory
  /\ InitIdle
  /\ docText \in [Docs -> {"openapi: 3.0.0"}]

NextWatcher ==
  \/ \E d \in WatchedDocs, x \in BOOLEAN :
       WatcherWatch(d, x) /\ UNCHANGED <<httpVars, pmVars, surfaces, leaked, owners, view>>
  \/ \E d \in WatchedDocs, t \in Texts :
       WatcherEdit(d, t) /\ UNCHANGED <<httpVars, pmVars, surfaces, leaked, owners, view>>
  \/ \E x \in BOOLEAN, y \in BOOLEAN :
       WatcherTimeout(x, y) /\ UNCHANGED <<httpVars, pmVars, surfaces, leaked, owners, view>>
  \/ \E d \in WatchedDocs, x \in BOOLEAN, y \in BOOLEAN :
       WatcherFileDeleted(d, x, y)
         /\ UNCHANGED <<httpVars, pmVars, surfaces, leaked, owners, view>>
  \/ \E r \in 1 .. MaxRegs :
       WatcherHandleDispose(r) /\ UNCHANGED <<httpVars, pmVars, surfaces, leaked, owners, view>>
  \/ WatcherDispose /\ UNCHANGED <<httpVars, pmVars, surfaces, leaked, owners, view>>

SpecWatcher == InitWatcher /\ [][NextWatcher]_vars

\* The host runs every timeout it was given: a debounce timer that stays
\* scheduled fires.
TimersRun ==
  \A d \in SoloDocs :
    WF_vars(TimerFires(d) /\ UNCHANGED <<fw, owners, burst, cancelled, view>>)

SpecLive == Init /\ [][Next]_vars /\ TimersRun

(***************************************************************************)
(* File detection: hasOpenApiExtension, hasOpenApiMarker,                  *)
(* isOpenApiDocument, isOpenApiTextDocument.  Paths and texts are          *)
(* sequences of character codes.                                           *)
(***************************************************************************)
\* OPENAPI_EXTENSIONS = ['.yaml', '.yml', '.json']
OPENAPI_EXTENSIONS ==
  {<<46, 121, 97, 109, 108>>, <<46, 121, 109, 108>>, <<46, 106, 115, 111, 110>>}

\* toLowerCase() of one character
LowerCase(c) == IF c \in 65 .. 90 THEN c + 32 ELSE c

ToLowerCase(s) == [i \in 1 .. Len(s) |-> LowerCase(s[i])]

\* path.endsWith(ext)
EndsWith(s, suffix) ==
  /\ Len(s) >= Len(suffix)
  /\ SubSeq(s, Len(s) - Len(suffix) + 1, Len(s)) = suffix

\* An extension test that accepts every path.
HasOpenApiExtensionAny(path) == TRUE

\* hasOpenApiExtension(uri)
HasOpenApiExtension(path) ==
  \E ext \in OPENAPI_EXTENSIONS : EndsWith(ToLowerCase(path), ext)

\* The classes of OPENAPI_MARKER_REGEX: \s, ["'] and [\d.]
IsSpace(c) == c \in {9, 10, 11, 12, 13, 32}

IsQuote(c) == c \in {34, 39}

IsVersionChar(c) == c \in (48 .. 57) \cup {46}

\* (openapi|swagger) under the flag i
MarkerWords ==
  {<<111, 112, 101, 110, 97, 112, 105>>, <<115, 119, 97, 103, 103, 101, 114>>}

\* \s* from position i: the first position that holds no white space
RECURSIVE SkipSpaces(_, _)
SkipSpaces(s, i) ==
  IF i <= Len(s) /\ IsSpace(s[i]) THEN SkipSpaces(s, i + 1) ELSE i

\* ["']? from position i
SkipQuote(s, i) == IF i <= Len(s) /\ IsQuote(s[i]) THEN i + 1 ELSE i

\* \s*["']?\s*:\s*['"]?[\d.]+ from position i, the position after the word.
\* The classes are disjoint, so the greedy match is the only one.
MarkerTailAt(s, i) ==
  LET colon == SkipSpaces(s, SkipQuote(s, SkipSpaces(s, i)))
      version == SkipQuote(s, SkipSpaces(s, colon + 1))
  IN  /\ colon <= Len(s)
      /\ s[colon] = 58
      /\ version <= Len(s)
      /\ IsVersionChar(s[version])

\* OPENAPI_MARKER_REGEX.test(content): the optional quote and white space in
\* front of the word and the optional quote at the end match the empty string
HasOpenApiMarker(content) ==
  \E i \in 1 .. Len(content), word \in MarkerWords :
    /\ i + Len(word) - 1 <= Len(content)
    /\ ToLowerCase(SubSeq(content, i, i + Len(word) - 1)) = word
    /\ MarkerTailAt(content, i + Len(word))

\* A classification that lets the failure of openTextDocument out.
OpenAndTestNoCatch(content, openThrows) ==
  [result |-> ~openThrows /\ HasOpenApiMarker(content), threw |-> openThrows]

\* try { openTextDocument; getText; hasOpenApiMarker } catch { return false }
OpenAndTest(content, openThrows) ==
  [result |-> ~openThrows /\ HasOpenApiMarker(content), threw |-> FALSE]

\* isOpenApiDocument(uri): read tells whether the content was asked for
IsOpenApiDocument(path, content, openThrows) ==
  IF ~HasOpenApiExtension(path)
  THEN [result |-> FALSE, threw |-> FALSE, read |-> FALSE]
  ELSE LET r == OpenAndTest(content, openThrows)
       IN  [result |-> r.result, threw |-> r.threw, read |-> TRUE]

\* isOpenApiTextDocument(document)
IsOpenApiTextDocument(path, content) ==
  IF ~HasOpenApiExtension(path) THEN FALSE ELSE HasOpenApiMarker(content)

\* Paths of files, each with whether it ends in a recognized extension
DetectPaths ==
  {
   \* /a/api.yaml
   [path |-> <<47, 97, 47, 97, 112, 105, 46, 121, 97, 109, 108>>,
    recognized |-> TRUE],
   \* /a/api.yml
   [path |-> <<47, 97, 47, 97, 112, 105, 46, 121, 109, 108>>,
    recognized |-> TRUE],
   \* /a/API.JSON
   [path |-> <<47, 97, 47, 65, 80, 73, 46, 74, 83, 79, 78>>,
    recognized |-> TRUE],
   \* /a/api.txt
   [path |-> <<47, 97, 47, 97, 112, 105, 46, 116, 120, 116>>,
    recognized |-> FALSE],
   \* /a/yaml
   [path |-> <<47, 97, 47, 121, 97, 109, 108>>,
    recognized |-> FALSE],
   \* /a/api.yaml.bak
   [path |-> <<47, 97, 47, 97, 112, 105, 46, 121, 97, 109, 108, 46, 98, 97,
             107>>,
    recognized |-> FALSE],
   \* /a/.json
   [path |-> <<47, 97, 47, 46, 106, 115, 111, 110>>,
    recognized |-> TRUE],
   \* /a/README.md
   [path |-> <<47, 97, 47, 82, 69, 65, 68, 77, 69, 46, 109, 100>>,
    recognized |-> FALSE]
  }

\* Texts of files, each with whether it holds a version marker
DetectTexts ==
  {
   \* openapi: 3.0.0
   [text |-> <<111, 112, 101, 110, 97, 112, 105, 58, 32, 51, 46, 48, 46, 48>>,
    marker |-> TRUE],
   \* swagger: "2.0"
   [text |-> <<115, 119, 97, 103, 103, 101, 114, 58, 32, 34, 50, 46, 48, 34>>,
    marker |-> TRUE],
   \* {"openapi":"3.1.0"}
   [text |-> <<123, 34, 111, 112, 101, 110, 97, 112, 105, 34, 58, 34, 51, 46,
             49, 46, 48, 34, 125>>,
    marker |-> TRUE],
   \* # c\n\nOpenAPI : '3.0'
   [text |-> <<35, 32, 99, 10, 10, 79, 112, 101, 110, 65, 80, 73, 32, 58, 32,
             39, 51, 46, 48, 39>>,
    marker |-> TRUE],
   \* title: x
   [text |-> <<116, 105, 116, 108, 101, 58, 32, 120>>,
    marker |-> FALSE],
   \* openapi:
   [text |-> <<111, 112, 101, 110, 97, 112, 105, 58>>,
    marker |-> FALSE],
   \* (empty)
   [text |-> <<>>,
    marker |-> FALSE],
   \* openapi 3.0
   [text |-> <<111, 112, 101, 110, 97, 112, 105, 32, 51, 46, 48>>,
    marker |-> FALSE],
   \* swagger: v2
   [text |-> <<115, 119, 97, 103, 103, 101, 114, 58, 32, 118, 50>>,
    marker |-> FALSE]
  }

\* A call of isOpenApiDocument(uri); openThrows: the file cannot be opened
IsOpenApiDocumentCall(p, t, openThrows) ==
  /\ lastOp' = [op |-> "isOpenApiDocument", path |-> p, sample |-> t,
                openThrows |-> openThrows,
                out |-> IsOpenApiDocument(p.path, t.text, openThrows)]
  /\ UNCHANGED <<httpVars, pmVars, hostVars, fw, owners, burst, cancelled, view>>

\* A call of isOpenApiTextDocument(document)
IsOpenApiTextDocumentCall(p, t) ==
  /\ lastOp' = [op |-> "isOpenApiTextDocument", path |-> p, sample |-> t,
                openThrows |-> FALSE,
                out |-> [result |-> IsOpenApiTextDocument(p.path, t.text),
                         threw |-> FALSE, read |-> TRUE]]
  /\ UNCHANGED <<httpVars, pmVars, hostVars, fw, owners, burst, cancelled, view>>

InitDetect ==
  /\ InitHttpServer
  /\ InitHistory
  /\ InitIdle
  /\ docText = [d \in Docs |-> "openapi: 3.0.0"]

NextDetect ==
  \/ \E p \in DetectPaths, t \in DetectTexts, x \in BOOLEAN :
       IsOpenApiDocumentCall(p, t, x)
  \/ \E p \in DetectPaths, t \in DetectTexts : IsOpenApiTextDocumentCall(p, t)

SpecDetect == InitDetect /\ [][NextDetect]_vars

(***************************************************************************)
(* FileReader: readFile, determineErrorType, FileReadError.getUserMessage. *)
(* Paths and messages are sequences of character codes.                    *)
(***************************************************************************)
\* enum FileReadErrorType
FileReadErrorType == {"NOT_FOUND", "PERMISSION_DENIED", "TOO_LARGE", "UNKNOWN"}

\* private static readonly MAX_FILE_SIZE = 10 * 1024 * 1024
MAX_FILE_SIZE == 10 * 1024 * 1024

\* A size test that rejects the ceiling itself.
ExceedsMaxFileSizeInclusive(byteLength) == byteLength >= MAX_FILE_SIZE

\* fileData.byteLength > FileReader.MAX_FILE_SIZE
ExceedsMaxFileSize(byteLength) == byteLength > MAX_FILE_SIZE

\* A classification that knows one kind only.
DetermineErrorTypeUnknown(error) == "UNKNOWN"

\* determineErrorType(error)
DetermineErrorType(error) ==
  IF error.isObject /\ error.code \in {"FileNotFound", "ENOENT"}
  THEN "NOT_FOUND"
  ELSE IF error.isObject /\ error.code \in {"NoPermissions", "EACCES", "EPERM"}
  THEN "PERMISSION_DENIED"
  ELSE "UNKNOWN"

\* "File not found: "
MsgNotFound ==
  <<70, 105, 108, 101, 32, 110, 111, 116, 32, 102, 111, 117, 110,
  100, 58, 32>>

\* "Permission denied: Cannot read file "
MsgPermissionDenied ==
  <<80, 101, 114, 109, 105, 115, 115, 105, 111, 110, 32, 100,
  101, 110, 105, 101, 100, 58, 32, 67, 97, 110, 110, 111, 116,
  32, 114, 101, 97, 100, 32, 102, 105, 108, 101, 32>>

\* "File too large: "
MsgTooLarge ==
  <<70, 105, 108, 101, 32, 116, 111, 111, 32, 108, 97, 114, 103,
  101, 58, 32>>

\* " exceeds the maximum size limit"
MsgExceeds ==
  <<32, 101, 120, 99, 101, 101, 100, 115, 32, 116, 104, 101, 32,
  109, 97, 120, 105, 109, 117, 109, 32, 115, 105, 122, 101, 32,
  108, 105, 109, 105, 116>>

\* "Failed to read file: "
MsgFailed ==
  <<70, 97, 105, 108, 101, 100, 32, 116, 111, 32, 114, 101, 97,
  100, 32, 102, 105, 108, 101, 58, 32>>

\* ". "
MsgSeparator == <<46, 32>>

\* "Unknown error"
MsgUnknownError ==
  <<85, 110, 107, 110, 111, 119, 110, 32, 101, 114, 114, 111,
  114>>

\* this.originalError?.message || 'Unknown error'
OriginalMessage(error) ==
  IF error.isError /\ error.message # <<>> THEN error.message
  ELSE MsgUnknownError

\* FileReadError.getUserMessage() of an error of the given type for the file
\* at fsPath; error is the value that was caught (originalError when it is
\* an Error)
GetUserMessage(type, fsPath, error) ==
  CASE type = "NOT_FOUND" -> MsgNotFound \o fsPath
    [] type = "PERMISSION_DENIED" -> MsgPermissionDenied \o fsPath
    [] type = "TOO_LARGE" -> MsgTooLarge \o fsPath \o MsgExceeds
    [] OTHER -> MsgFailed \o fsPath \o MsgSeparator \o OriginalMessage(error)

\* No value was caught
NoError == [isObject |-> FALSE, isError |-> FALSE, code |-> "", message |-> <<>>]

\* readFile(uri): outcome is what vscode.workspace.fs.readFile did, bytes
\* handed over ([thrown |-> FALSE, byteLength, text]) or a value thrown
\* ([thrown |-> TRUE, error]); decoded tells whether the bytes were turned
\* into text
ReadFile(fsPath, outcome) ==
  IF ~outcome.thrown
  THEN IF ExceedsMaxFileSize(outcome.byteLength)
       THEN [success |-> FALSE, content |-> "", type |-> "TOO_LARGE",
             userMessage |-> GetUserMessage("TOO_LARGE", fsPath, NoError),
             decoded |-> FALSE, threw |-> FALSE]
       ELSE [success |-> TRUE, content |-> outcome.text, type |-> "",
             userMessage |-> <<>>, decoded |-> TRUE, threw |-> FALSE]
  ELSE LET type == DetermineErrorType(outcome.error) IN
       [success |-> FALSE, content |-> "", type |-> type,
        userMessage |-> GetUserMessage(type, fsPath, outcome.error),
        decoded |-> FALSE, threw |-> FALSE]

\* Paths of the files read
ReadPaths ==
  {<<47, 97, 47, 97, 112, 105, 46, 121, 97, 109, 108>>,
   <<47, 98, 46, 106, 115, 111, 110>>,
   <<47, 97, 47, 109, 105, 115, 115, 105, 110, 103, 46, 121, 109,
    108>>,
   <<47, 114, 111, 111, 116, 47, 120, 46, 121, 97, 109, 108>>}

\* "boom", the message of an Error
MsgBoom == <<98, 111, 111, 109>>

\* Values vscode.workspace.fs.readFile can throw, each with its cause:
\* Errors with a code and with or without a message, an Error without a code,
\* and values that are no objects
ThrownErrors ==
  {[isObject |-> TRUE, isError |-> TRUE, code |-> c.code, message |-> m,
    cause |-> c.cause] :
     c \in {[code |-> "FileNotFound", cause |-> "missing"],
            [code |-> "ENOENT", cause |-> "missing"],
            [code |-> "NoPermissions", cause |-> "permission"],
            [code |-> "EACCES", cause |-> "permission"],
            [code |-> "EPERM", cause |-> "permission"],
            [code |-> "EISDIR", cause |-> "other"],
            [code |-> "Unavailable", cause |-> "other"],
            [code |-> "", cause |-> "other"]},
     m \in {<<>>, MsgBoom}}
    \cup {[isObject |-> FALSE, isError |-> FALSE, code |-> "", message |-> <<>>,
           cause |-> "other"]}

\* Sizes of the files read, around the ceiling
ByteLengths ==
  {0, 1, MAX_FILE_SIZE - 1, MAX_FILE_SIZE, MAX_FILE_SIZE + 1,
   11 * 1024 * 1024}

ReadOutcomes ==
  {[thrown |-> FALSE, byteLength |-> n, text |-> "openapi: 3.0.0"] :
     n \in ByteLengths}
    \cup {[thrown |-> TRUE, error |-> e] : e \in ThrownErrors}

\* A call of readFile(uri)
ReadFileCall(p, outcome) ==
  /\ lastOp' = [op |-> "readFile", path |-> p, outcome |-> outcome,
                out |-> ReadFile(p, outcome)]
  /\ UNCHANGED <<httpVars, pmVars, hostVars, fw, owners, burst, cancelled, view>>

\* A call of getUserMessage() on a FileReadError of the given type
GetUserMessageCall(type, p, e) ==
  /\ lastOp' = [op |-> "getUserMessage", path |-> p, type |-> type,
                error |-> e, out |-> GetUserMessage(type, p, e)]
  /\ UNCHANGED <<httpVars, pmVars, hostVars, fw, owners, burst, cancelled, view>>

InitReader ==
  /\ InitHttpServer
  /\ InitHistory
  /\ InitIdle
  /\ docText = [d \in Docs |-> "openapi: 3.0.0"]

NextReader ==
  \/ \E p \in ReadPaths, outcome \in ReadOutcomes : ReadFileCall(p, outcome)
  \/ \E type \in FileReadErrorType, p \in ReadPaths, e \in ThrownErrors :
       GetUserMessageCall(type, p, e)

SpecReader == InitReader /\ [][NextReader]_vars

\* One webview: renderings and messages in any order
InitView ==
  /\ InitHttpServer
  /\ InitHistory
  /\ InitIdle
  /\ docText = [d \in Docs |-> "openapi: 3.0.0"]

NextView ==
  \/ \E u \in ContentUrls, e \in ErrorMessages :
       ViewRender(u, e)
         /\ UNCHANGED <<httpVars, pmVars, hostVars, fw, owners, burst, cancelled>>
  \/ \E data \in ViewMessages :
       ViewMessage(data)
         /\ UNCHANGED <<httpVars, pmVars, hostVars, fw, owners, burst, cancelled>>
  \/ \E kind \in {"error", "unhandledrejection"} :
       ViewFault(kind)
         /\ UNCHANGED <<httpVars, pmVars, hostVars, fw, owners, burst, cancelled>>
  \/ ViewPostReceived
       /\ UNCHANGED <<httpVars, pmVars, hostVars, fw, owners, burst, cancelled>>

SpecView == InitView /\ [][NextView]_vars

(***************************************************************************)
(* getHtmlContent as text: the markup of #content, and escapeForJson.      *)
(* Texts are sequences of character codes.                                 *)
(***************************************************************************)
\* Template text of getHtmlContent: the markup up to the display style of #error-container
MarkupErrorContainer ==
  <<32, 32, 60, 100, 105, 118, 32, 105, 100, 61, 34, 99, 111, 110, 116,
  101, 110, 116, 34, 62, 10, 32, 32, 32, 32, 60, 100, 105, 118, 32,
  105, 100, 61, 34, 101, 114, 114, 111, 114, 45, 99, 111, 110, 116, 97,
  105, 110, 101, 114, 34, 32, 115, 116, 121, 108, 101, 61, 34, 100,
  105, 115, 112, 108, 97, 121, 58, 32>>

\* Template text of getHtmlContent: from there up to the text of #error-text
MarkupErrorText ==
  <<59, 34, 62, 10, 32, 32, 32, 32, 32, 32, 60, 100, 105, 118, 32, 99,
  108, 97, 115, 115, 61, 34, 101, 114, 114, 111, 114, 45, 109, 101,
  115, 115, 97, 103, 101, 34, 62, 10, 32, 32, 32, 32, 32, 32, 32, 32,
  60, 100, 105, 118, 32, 99, 108, 97, 115, 115, 61, 34, 101, 114, 114,
  111, 114, 45, 116, 105, 116, 108, 101, 34, 62, 69, 114, 114, 111,
  114, 32, 76, 111, 97, 100, 105, 110, 103, 32, 80, 114, 101, 118, 105,
  101, 119, 60, 47, 100, 105, 118, 62, 10, 32, 32, 32, 32, 32, 32, 32,
  32, 60, 100, 105, 118, 32, 105, 100, 61, 34, 101, 114, 114, 111, 114,
  45, 116, 101, 120, 116, 34, 62>>

\* Template text of getHtmlContent: from there up to the value of apiDescriptionUrl
MarkupElements ==
  <<60, 47, 100, 105, 118, 62, 10, 32, 32, 32, 32, 32, 32, 60, 47, 100,
  105, 118, 62, 10, 32, 32, 32, 32, 60, 47, 100, 105, 118, 62, 10, 32,
  32, 32, 32, 60, 101, 108, 101, 109, 101, 110, 116, 115, 45, 97, 112,
  105, 10, 32, 32, 32, 32, 32, 32, 105, 100, 61, 34, 101, 108, 101,
  109, 101, 110, 116, 115, 34, 10, 32, 32, 32, 32, 32, 32, 97, 112,
  105, 68, 101, 115, 99, 114, 105, 112, 116, 105, 111, 110, 85, 114,
  108, 61, 34>>

\* Template text of getHtmlContent: from there up to the display style of the component
MarkupElementsStyle ==
  <<34, 10, 32, 32, 32, 32, 32, 32, 108, 97, 121, 111, 117, 116, 61,
  34, 115, 105, 100, 101, 98, 97, 114, 34, 10, 32, 32, 32, 32, 32, 32,
  114, 111, 117, 116, 101, 114, 61, 34, 104, 97, 115, 104, 34, 10, 32,
  32, 32, 32, 32, 32, 115, 116, 121, 108, 101, 61, 34, 100, 105, 115,
  112, 108, 97, 121, 58, 32>>

\* Template text of getHtmlContent: the rest of the markup of #content
MarkupEnd ==
  <<59, 32, 119, 105, 100, 116, 104, 58, 32, 49, 48, 48, 37, 59, 32,
  104, 101, 105, 103, 104, 116, 58, 32, 49, 48, 48, 37, 59, 34, 10, 32,
  32, 32, 32, 47, 62, 10, 32, 32, 60, 47, 100, 105, 118, 62, 10>>

\* "block"
DisplayBlock == <<98, 108, 111, 99, 107>>

\* "none"
DisplayNone == <<110, 111, 110, 101>>

\* errorMessage ? ... : ... for an errorMessage that is a text or not given
TruthyText(errorMessage) == errorMessage.given /\ errorMessage.text # <<>>

\* The entity escapeForJson puts for a character, the character itself when
\* it has none
EscapeChar(c) ==
  CASE c = 38 -> <<38, 97, 109, 112, 59>>
    [] c = 34 -> <<38, 113, 117, 111, 116, 59>>
    [] c = 39 -> <<38, 35, 51, 57, 59>>
    [] c = 60 -> <<38, 108, 116, 59>>
    [] c = 62 -> <<38, 103, 116, 59>>
    [] c = 10 -> <<38, 35, 49, 48, 59>>
    [] c = 13 -> <<38, 35, 49, 51, 59>>
    [] c = 9 -> <<38, 35, 57, 59>>
    [] OTHER -> <<c>>

\* escapeForJson(str): & first, then the other characters; no entity holds
\* a character replaced later, so one pass gives the same text
RECURSIVE EscapeForJson(_)
EscapeForJson(str) ==
  IF str = <<>> THEN <<>>
  ELSE EscapeChar(Head(str)) \o EscapeForJson(Tail(str))

\* The markup of #content that getHtmlContent returns: contentUrl and
\* errorMessage are put into the template as they are
ContentMarkup(contentUrl, errorMessage) ==
  MarkupErrorContainer
    \o (IF TruthyText(errorMessage) THEN DisplayBlock ELSE DisplayNone)
    \o MarkupErrorText
    \o (IF TruthyText(errorMessage) THEN errorMessage.text ELSE <<>>)
    \o MarkupElements
    \o contentUrl
    \o MarkupElementsStyle
    \o (IF TruthyText(errorMessage) THEN DisplayNone ELSE DisplayBlock)
    \o MarkupEnd

\* "<script>alert(1)</script>"
ScriptTag ==
  <<60, 115, 99, 114, 105, 112, 116, 62, 97, 108, 101, 114, 116, 40,
  49, 41, 60, 47, 115, 99, 114, 105, 112, 116, 62>>

\* "&lt;script&gt;"
EscapedScriptOpen ==
  <<38, 108, 116, 59, 115, 99, 114, 105, 112, 116, 38, 103, 116, 59>>

\* Third arguments of getHtmlContent: the text of the test, URLs, and texts
\* with the characters escapeForJson replaces
MarkupContents ==
  {<<111, 112, 101, 110, 97, 112, 105, 58, 32, 51, 46, 48, 46, 48, 10,
    105, 110, 102, 111, 58, 10, 32, 32, 116, 105, 116, 108, 101, 58, 32,
    34, 84, 101, 115, 116, 32, 60, 115, 99, 114, 105, 112, 116, 62, 97,
    108, 101, 114, 116, 40, 49, 41, 60, 47, 115, 99, 114, 105, 112, 116,
    62, 34>>,
   <<60, 115, 99, 114, 105, 112, 116, 62, 97, 108, 101, 114, 116, 40,
    49, 41, 60, 47, 115, 99, 114, 105, 112, 116, 62>>,
   <<104, 116, 116, 112, 58, 47, 47, 108, 111, 99, 97, 108, 104, 111,
    115, 116, 58, 52, 57, 49, 53, 50, 47, 100, 111, 99, 47, 97, 98, 99>>,
   <<104, 116, 116, 112, 58, 47, 47, 108, 111, 99, 97, 108, 104, 111,
    115, 116, 58, 48, 47, 100, 111, 99, 47, 97, 98, 99>>,
   <<97, 98, 111, 117, 116, 58, 98, 108, 97, 110, 107>>,
   <<97, 38, 98>>,
   <<34, 113, 34>>,
   <<105, 116, 39, 115>>,
   <<60, 98, 62>>,
   <<97, 9, 98>>,
   <<97, 13, 10, 98>>,
   <<120, 34, 62, 60, 115, 99, 114, 105, 112, 116, 62, 97, 108, 101,
    114, 116, 40, 49, 41, 60, 47, 115, 99, 114, 105, 112, 116, 62>>}

\* Fourth arguments of getHtmlContent: not given, empty, or a text
MarkupErrorMessages ==
  {[given |-> FALSE, text |-> <<>>], [given |-> TRUE, text |-> <<>>]}
    \cup {[given |-> TRUE, text |-> t] : t \in
  {<<70, 105, 108, 101, 32, 110, 111, 116, 32, 102, 111, 117, 110, 100,
    58, 32, 47, 97, 47, 97, 112, 105, 46, 121, 97, 109, 108>>,
   <<70, 97, 105, 108, 101, 100, 32, 116, 111, 32, 114, 101, 97, 100,
    32, 102, 105, 108, 101, 32, 99, 111, 110, 116, 101, 110, 116>>,
   <<60, 98, 62, 98, 111, 108, 100, 60, 47, 98, 62>>,
   <<97, 38, 98>>,
   <<80, 101, 114, 109, 105, 115, 115, 105, 111, 110, 32, 100, 101, 110,
    105, 101, 100, 58, 32, 67, 97, 110, 110, 111, 116, 32, 114, 101, 97,
    100, 32, 102, 105, 108, 101, 32, 47, 97, 47, 97, 112, 105, 46, 121,
    97, 109, 108>>,
   <<70, 105, 108, 101, 32, 116, 111, 111, 32, 108, 97, 114, 103, 101,
    58, 32, 47, 97, 32, 101, 120, 99, 101, 101, 100, 115, 32, 116, 104,
    101, 32, 109, 97, 120, 105, 109, 117, 109, 32, 115, 105, 122, 101,
    32, 108, 105, 109, 105, 116>>,
   <<120>>}}

\* A call of getHtmlContent(webview, extensionUri, contentUrl, errorMessage)
GetHtmlContentCall(contentUrl, errorMessage) ==
  /\ lastOp' = [op |-> "getHtmlContent", contentUrl |-> contentUrl,
                errorMessage |-> errorMessage,
                html |-> ContentMarkup(contentUrl, errorMessage)]
  /\ UNCHANGED <<httpVars, pmVars, hostVars, fw, owners, burst, cancelled, view>>

\* A call of escapeForJson(str)
EscapeForJsonCall(str) ==
  /\ lastOp' = [op |-> "escapeForJson", str |-> str, out |-> EscapeForJson(str)]
  /\ UNCHANGED <<httpVars, pmVars, hostVars, fw, owners, burst, cancelled, view>>

InitMarkup ==
  /\ InitHttpServer
  /\ InitHistory
  /\ InitIdle
  /\ docText = [d \in Docs |-> "openapi: 3.0.0"]

NextMarkup ==
  \/ \E c \in MarkupContents, e \in MarkupErrorMessages : GetHtmlContentCall(c, e)
  \/ \E str \in MarkupContents : EscapeForJsonCall(str)

SpecMarkup == InitMarkup /\ [][NextMarkup]_vars

\* s holds part as a contiguous piece
Contains(s, part) ==
  \E i \in 1 .. Len(s) - Len(part) + 1 : SubSeq(s, i, i + Len(part) - 1) = part

(***************************************************************************)
(* Properties                                                              *)
(***************************************************************************)

\* C2 (SpecWatcher).  Debounce law: with one registration on the watcher,
\* at most one callback is scheduled at any time, one is scheduled whenever
\* edits are waiting, and when it runs onChanged gets the text of the last
\* edit of the burst and nothing remains scheduled.
C2_DebounceLaw ==
  fw.regs = 1 =>
    /\ Len(fw.timeouts) <= 1
    /\ (burst # <<>> => Len(fw.timeouts) = 1)
    /\ (lastOp.op = "changed" =>
          /\ Len(lastOp.burst) >= 1
          /\ lastOp.text = lastOp.burst[Len(lastOp.burst)].text
          /\ fw.timeouts = <<>>)

\* A delivery that closes a burst of two edits with different texts.
C2_Witness ==
  /\ fw.regs = 1
  /\ lastOp.op = "changed"
  /\ Len(lastOp.burst) = 2
  /\ lastOp.burst[1].text # lastOp.burst[2].text

\* C3 (SpecHttp).  Round trip: a GET of the URL registerContent has just
\* returned answers 200 with the registered text, whatever the text.
C3_RegisterThenGet ==
  [][(/\ lastOp.op = "register"
      /\ lastOp'.op = "request"
      /\ lastOp'.method = "GET"
      /\ lastOp'.url = lastOp.url)
     => lastOp'.resp = Response(200, lastOp.text)]_vars

\* C4 (SpecHttp).  A GET of /doc/<id>?t=<n> for a document whose registered
\* text is not empty answers 200 with that text.
C4_CacheBustedGet ==
  \A d \in Docs :
    (/\ lastOp.op = "request"
     /\ lastOp.method = "GET"
     /\ lastOp.url = WithCacheBust(RegisterContentUrl(port, d))
     /\ ~ContentMissing(MapGet(contentMap, DocIds[d])))
    => lastOp.resp = Response(200, MapGet(contentMap, DocIds[d]))

\* C5 (SpecHttp).  Two different documents that are registered never have the
\* same registry key.
C5_DistinctDocumentsDistinctKeys ==
  \A a \in owners, b \in owners : a # b => DocIds[a] # DocIds[b]

\* C9 (SpecWatcher).  No onChanged or onDeleted call is made for a
\* registration that a dispose() has covered; right after dispose() nothing is
\* subscribed and nothing is scheduled; a dispose() that covers no new
\* registration changes nothing.
C9_NoCallbackAfterDispose ==
  /\ (lastOp.op \in {"changed", "deleted"} => lastOp.regs \cap cancelled = {})
  /\ (lastOp.op = "dispose" =>
        /\ fw.disposables = {}
        /\ fw.timeouts = <<>>
        /\ (lastOp.regs = {} => lastOp.flag))

\* dispose() ran while an edit was waiting for its debounce timer.
C9_Witness ==
  /\ lastOp.op = "dispose"
  /\ lastOp.pending
  /\ lastOp.regs # {}

\* C10 (SpecHttp).  A GET of a document's URL right after updateContent(id,
\* text2) on a registered document answers 200 with text2.
C10_GetAfterUpdate ==
  [][(/\ lastOp.op = "update"
      /\ lastOp.flag
      /\ lastOp'.op = "request"
      /\ lastOp'.method = "GET"
      /\ lastOp'.url = RegisterContentUrl(port, lastOp.doc))
     => lastOp'.resp = Response(200, lastOp.text)]_vars

C6_SessionsIndependent ==
  [][\A b \in PairDocs :
       (/\ lastOp'.op \in {"changed", "updatePreview", "close"}
        /\ lastOp'.doc # b
        /\ previews[lastOp'.doc].exists
        /\ previews[b].exists)
       => /\ previews'[b] = previews[b]
          /\ Served(contentMap', b) = Served(contentMap, b)]_vars

\* C7 (Spec).  A createOrShowPreview without a column hint that follows the
\* close of the document's surface creates the session in the column the
\* closed session last reported.
C7_ColumnRestored ==
  [][(/\ lastOp.op = "close"
      /\ lastOp'.op = "create"
      /\ lastOp'.doc = lastOp.doc
      /\ lastOp'.hint = 0)
     => lastOp'.column = lastOp.column]_vars

\* A session reopened in column One, which it reported before it was closed.
C7_Witness ==
  /\ lastOp.op = "create"
  /\ lastOp.flag
  /\ lastOp.hint = 0
  /\ lastOp.column = ViewColumnOne
  /\ previews[lastOp.doc].lastViewColumn = ViewColumnOne

\* C8 (Spec).  Right after the surface of a session is closed the document
\* has no session, no registry entry, and no watcher that is still subscribed
\* or has a timer scheduled.
C8_CloseDestroysSession ==
  lastOp.op = "close" =>
    /\ ~previews[lastOp.doc].exists
    /\ DocIds[lastOp.doc] \notin DOMAIN contentMap
    /\ leaked = <<>>

\* C11 (SpecHttp).  After removeContent the document's URL answers 404, and
\* keeps answering 404 across every step that is not a registerContent.
C11_RemovedStaysNotFound ==
  [][\A d \in Docs :
       (/\ lastOp.op = "remove"
        /\ lastOp.doc = d
        /\ lastOp'.op # "register")
       => /\ Served(contentMap, d).status = 404
          /\ Served(contentMap', d).status = 404]_vars

\* C12 (SpecHttp).  updateContent on a document that has no registry entry
\* leaves the registry without an entry for it.
C12_UpdateWithoutEntryIsNoOp ==
  (lastOp.op = "update" /\ ~lastOp.flag)
    => DocIds[lastOp.doc] \notin DOMAIN contentMap

\* C13 (SpecLive).  With the HttpServer listening: once the watcher of d's
\* session has a timer scheduled,
\* then unless the session ends (closed, disposed or replaced) or the text
\* of d changes again from t, the response served for d becomes 200 with t
\* and the view is the live view at d's content URL.
C13_LiveUpdate ==
  \A d \in SoloDocs, t \in Texts :
    (/\ server = "listening"
     /\ previews[d].exists
     /\ docText[d] = t
     /\ Len(previews[d].fileWatcher.timeouts) > 0)
    ~> (\/ ~previews[d].exists
        \/ (lastOp.op = "recreate" /\ lastOp.doc = d)
        \/ docText[d] # t
        \/ /\ Served(contentMap, d) = Response(200, t)
           /\ previews[d].view = LiveView(RegisterContentUrl(port, d)))

\* C14 (Spec).  Right after PreviewManager.dispose() there is no session, no
\* watcher that is still subscribed or has a timer scheduled, the registry is
\* empty and the HttpServer is stopped.
C14_DisposeAllReleasesEverything ==
  lastOp.op = "disposeAll" =>
    /\ \A d \in Docs : ~previews[d].exists
    /\ leaked = <<>>
    /\ contentMap = EmptyMap
    /\ server = "undefined"

\* C15 (Spec).  When the first step of disposePreview fails (the column of
\* the closed surface cannot be read), the other steps are still carried out:
\* the registry entry is removed, the watcher disposed, the session removed.
C15_DisposalStepsIndependent ==
  (lastOp.op = "close" /\ lastOp.flag) =>
    /\ DocIds[lastOp.doc] \notin DOMAIN contentMap
    /\ \A i \in DOMAIN leaked : Inert(leaked[i])
    /\ ~previews[lastOp.doc].exists

\* C16 (Spec).  createOrShowPreview on a document that has a session never
\* takes the plain creation path: it reveals the surface, at the hint if
\* there is one and else at the session's last column, and changes no
\* session; or, when reveal fails, it replaces the session by a fresh one, and
\* the document is left with one session and one surface.
C16_RevealOrRecreate ==
  [][LET d == lastOp'.doc IN
     /\ (lastOp'.op = "create" => ~previews[d].exists)
     /\ (lastOp'.op = "reveal" =>
           /\ previews[d].exists
           /\ previews' = previews
           /\ surfaces' = surfaces
           /\ contentMap' = contentMap
           /\ lastOp'.column = (IF lastOp'.hint # 0 THEN lastOp'.hint
                                ELSE previews[d].lastViewColumn))
     /\ (lastOp'.op = "recreate" =>
           /\ previews[d].exists
           /\ previews'[d].exists
           /\ previews'[d].fileWatcher = Watch(NewFileWatcher, d, FALSE)
           /\ surfaces'[d] = 1)]_vars

\* A session that was replaced after reveal failed, for a document that was
\* edited before.
C16_Witness ==
  /\ lastOp.op = "recreate"
  /\ previews[lastOp.doc].exists
  /\ surfaces[lastOp.doc] = 1
  /\ docText[lastOp.doc] = "swagger: 2.0"

\* C17 (Spec).  A session is created in the hinted column; without a hint, in
\* the remembered column of the document; without either, in the default:
\* Two when no editor is active, the active editor's column when the
\* preference is "active", Beside for every other preference.
C17_ColumnPriority ==
  [][lastOp'.op \in {"create", "recreate"} =>
       LET d == lastOp'.doc
           e == lastOp'.editor
           remembered == lastColumnPositions[d]
           col == lastOp'.column
       IN  /\ previews'[d].lastViewColumn = col
           /\ lastOp'.hint # 0 => col = lastOp'.hint
           /\ (lastOp'.hint = 0 /\ remembered # 0) => col = remembered
           /\ (lastOp'.hint = 0 /\ remembered = 0) =>
                /\ ~e.present => col = ViewColumnTwo
                /\ (e.present /\ lastOp'.preference = "active"
                      /\ e.viewColumn # 0) => col = e.viewColumn
                /\ (e.present /\ lastOp'.preference # "active")
                      => col = ViewColumnBeside]_vars

\* A first session of a document, created without a hint while no editor is
\* active.
C17_Witness ==
  /\ lastOp.op = "create"
  /\ lastOp.hint = 0
  /\ lastOp.saved = 0
  /\ ~lastOp.editor.present
  /\ lastOp.column = ViewColumnTwo

\* C18 (Spec).  A session created for a document whose text was read, the
\* empty text included, has the live view and its text is registered.
C18_ReadableGetsLiveView ==
  (lastOp.op \in {"create", "recreate"} /\ ReadFromDocument(lastOp.text).success)
    => /\ previews[lastOp.doc].view.kind = "live"
       /\ MapGet(contentMap, DocIds[lastOp.doc]) = lastOp.text

\* C19 (Spec).  updatePreview posts nothing without a session; with one it
\* posts 'update' with the text when the text was read, else 'error'.
C19_UpdatePreviewMessage ==
  lastOp.op = "updatePreview" =>
    IF ~lastOp.flag THEN lastOp.method = ""
    ELSE IF ReadFromDocument(docText[lastOp.doc]).success
         THEN lastOp.method = "update" /\ lastOp.text = docText[lastOp.doc]
         ELSE lastOp.method = "error"

\* C20 (Spec).  A change delivered to a session that shows the error view
\* registers the delivered text and replaces the view by the live view at the
\* document's URL.
C20_ErrorViewRecovers ==
  [][(lastOp'.op = "changed" /\ previews[lastOp'.doc].view = ErrorView) =>
       LET d == lastOp'.doc IN
       /\ lastOp'.text = docText[d]
       /\ MapGet(contentMap', DocIds[d]) = docText[d]
       /\ previews'[d].view = LiveView(RegisterContentUrl(port, d))
       /\ (docText[d] # "" =>
             Served(contentMap', d) = Response(200, docText[d]))]_vars

\* The error view of a session replaced after a delivery of non-empty text.
C20_Witness ==
  /\ lastOp.op = "changed"
  /\ lastOp.flag
  /\ lastOp.text # ""
  /\ previews[lastOp.doc].view.kind = "live"

\* C21 (SpecWatcher).  Disposing the handle that watch() returned to one
\* registration leaves the subscriptions and the scheduled callbacks of every
\* other registration of the instance in place.
C21_HandleReleasesOwnRegistration ==
  [][lastOp'.op = "disposeHandle" =>
       /\ \A s \in fw.disposables :
            s.reg \notin lastOp'.regs => s \in fw'.disposables
       /\ \A i \in DOMAIN fw.timeouts :
            fw.timeouts[i].reg \notin lastOp'.regs =>
              \E j \in DOMAIN fw'.timeouts : fw'.timeouts[j] = fw.timeouts[i]]_vars

\* C22 (SpecWatcher).  A delete event calls onDeleted in the same step for
\* exactly the registrations whose delete subscription watches the deleted
\* uri, with or without a timer scheduled, and leaves the timers alone.
C22_DeleteNotDebounced ==
  [][lastOp'.op \in {"deleted", "unlink"} =>
       /\ lastOp'.regs =
            {s.reg : s \in {x \in fw.disposables :
                              x.kind = "delete" /\ x.uri = lastOp'.doc}}
       /\ (lastOp'.op = "deleted" <=> lastOp'.regs # {})
       /\ fw' = fw]_vars

\* onDeleted called while a timer is scheduled, and not for a registration
\* that watches another file.
C22_Witness ==
  /\ lastOp.op = "deleted"
  /\ lastOp.pending
  /\ \E s \in fw.disposables :
       s.kind = "delete" /\ s.uri # lastOp.doc /\ s.reg \notin lastOp.regs

C24_ColumnMemoryWriters ==
  [][\A d \in Docs :
       lastColumnPositions'[d] # lastColumnPositions[d] =>
         lastOp'.op \in {"close", "recreate", "disposeAll", "viewState"}]_vars

\* C25 (SpecDetect).  isOpenApiDocument of a file that can be opened, and
\* isOpenApiTextDocument, answer true exactly when the path ends in a
\* recognized extension and the text holds a version marker.
C25_ExtensionAndMarker ==
  (lastOp.op \in {"isOpenApiDocument", "isOpenApiTextDocument"}
     /\ ~lastOp.openThrows)
    => (lastOp.out.result <=> (lastOp.path.recognized /\ lastOp.sample.marker))

\* A marker that follows other lines, in a file with an upper-case extension.
C25_Witness ==
  /\ lastOp.op = "isOpenApiTextDocument"
  /\ lastOp.out.result
  /\ lastOp.path.path[Len(lastOp.path.path)] = 78
  /\ lastOp.sample.text[1] = 35

\* C26 (SpecDetect).  isOpenApiDocument lets no error out; a path without a
\* recognized extension is answered false without asking for the content, and
\* a file that cannot be opened is answered false.
C26_ClassificationNeverThrows ==
  lastOp.op = "isOpenApiDocument" =>
    /\ ~lastOp.out.threw
    /\ ~lastOp.path.recognized => (~lastOp.out.result /\ ~lastOp.out.read)
    /\ lastOp.openThrows => ~lastOp.out.result

\* A file with a recognized extension and a marker that cannot be opened.
C26_Witness ==
  /\ lastOp.op = "isOpenApiDocument"
  /\ lastOp.openThrows
  /\ lastOp.path.recognized
  /\ lastOp.sample.marker
  /\ lastOp.out.read

\* C27 (SpecReader).  A readFile whose underlying read throws returns an
\* unsuccessful result and lets nothing out; its kind is NotFound for a
\* missing file, PermissionDenied for a permission failure and Unknown for
\* any other failure; the user message of the result holds the path and
\* differs from the message every other kind gives for the same file.
C27_FailuresClassified ==
  (lastOp.op = "readFile" /\ lastOp.outcome.thrown) =>
    LET out == lastOp.out
        e == lastOp.outcome.error
    IN  /\ ~out.success
        /\ ~out.threw
        /\ out.type \in FileReadErrorType
        /\ e.cause = "missing" => out.type = "NOT_FOUND"
        /\ e.cause = "permission" => out.type = "PERMISSION_DENIED"
        /\ e.cause = "other" => out.type = "UNKNOWN"
        /\ Contains(out.userMessage, lastOp.path)
        /\ \A k \in FileReadErrorType \ {out.type} :
             GetUserMessage(k, lastOp.path, e) # out.userMessage

\* A permission failure reported by its POSIX code.
C27_Witness ==
  /\ lastOp.op = "readFile"
  /\ lastOp.outcome.thrown
  /\ lastOp.outcome.error.code = "EACCES"
  /\ lastOp.out.type = "PERMISSION_DENIED"

\* C28 (SpecReader).  A readFile that obtains the bytes answers TooLarge
\* exactly when their length exceeds 10 MiB, and then without decoding them;
\* otherwise it succeeds with the decoded text.
C28_TooLargeAboveTenMiB ==
  (lastOp.op = "readFile" /\ ~lastOp.outcome.thrown) =>
    LET out == lastOp.out
        n == lastOp.outcome.byteLength
    IN  IF n > 10 * 1024 * 1024
        THEN ~out.success /\ out.type = "TOO_LARGE" /\ ~out.decoded
        ELSE out.success /\ out.decoded /\ out.content = lastOp.outcome.text

\* A file of exactly 10 MiB, read successfully.
C28_Witness ==
  /\ lastOp.op = "readFile"
  /\ ~lastOp.outcome.thrown
  /\ lastOp.outcome.byteLength = 10 * 1024 * 1024
  /\ lastOp.out.success

\* C29 (SpecView).  In every state of a rendered view exactly one of the
\* error region and the rendering component is displayed, and the component
\* is in the document.  The error region is the one displayed exactly when
\* the view was rendered with an errorMessage and no message has been handled
\* since, or the last message handled was 'error'; the component is the one
\* displayed exactly when the view was rendered without an errorMessage and
\* no message has been handled since, or the last message handled was an
\* 'update' that succeeded.
C29_ViewDisplayState ==
  view # NoDocument =>
    LET errorShown == view.errorContainer = "block"
        componentShown == view.elements.display = "block"
    IN  /\ errorShown <=> ~componentShown
        /\ view.elements.inDocument
        /\ errorShown <=>
             \/ view.handled = "none" /\ view.rendered # Undefined
             \/ view.handled = "error"
        /\ componentShown <=>
             \/ view.handled = "none" /\ view.rendered = Undefined
             \/ view.handled = "update"

\* A view rendered with an errorMessage that a later update turned into the
\* component, and a view rendered without one that an 'error' message turned
\* into the error region, are both checked; this is the first.
C29_Witness ==
  /\ view # NoDocument
  /\ view.rendered # Undefined
  /\ view.handled = "update"
  /\ view.elements.display = "block"
  /\ view.errorContainer = "none"

\* C30 (SpecHttp).  A start() called while the HttpServer has a server
\* object, bound or still binding, creates no server and binds no port: the
\* server and its port stay as they are.  Called on a listening server it
\* returns the base URL of the bound port, which is the URL the first call
\* resolved with, as no step other than the listen callback changes the port.
C30_StartIdempotent ==
  [][/\ (lastOp'.op = "start" /\ server # "undefined") =>
          /\ ~lastOp'.flag
          /\ server' = server
          /\ port' = port
          /\ server = "listening" => lastOp'.url = GetServerUrl(port)
     /\ lastOp'.op # "listening" => port' = port
     /\ lastOp'.op = "listening" => lastOp'.url = GetServerUrl(port')]_vars

\* A start() on a listening server that returned the URL of the bound port.
C30_Witness ==
  /\ lastOp.op = "start"
  /\ server = "listening"
  /\ port \in Ports
  /\ ~lastOp.flag
  /\ lastOp.url = GetServerUrl(port)

\* C31 (Spec).  The failure of the HttpServer to start is a single step that
\* shows the user one error message and leaves the sessions alone; the server
\* never starts or fails again.  While the server is failed a
\* createOrShowPreview of a document without a session throws nothing and
\* leaves the document with one session and one surface, one for a document
\* with a session reveals it, a close of the surface removes the session,
\* and dispose() removes every session and clears the server.
C31_DegradedMode ==
  [][/\ lastOp'.op = "failed" =>
          /\ lastOp'.reported
          /\ server = "binding"
          /\ previews' = previews
     /\ server = "failed" =>
          /\ server' \in {"failed", "undefined"}
          /\ lastOp'.op \in {"create", "recreate"} =>
               /\ ~lastOp'.threw
               /\ previews'[lastOp'.doc].exists
               /\ surfaces'[lastOp'.doc] = 1
          /\ lastOp'.op = "reveal" =>
               /\ previews[lastOp'.doc].exists
               /\ previews' = previews
               /\ surfaces' = surfaces
          /\ lastOp'.op = "close" =>
               /\ ~previews'[lastOp'.doc].exists
               /\ surfaces'[lastOp'.doc] = 0
          /\ lastOp'.op = "disposeAll" =>
               /\ \A d \in Docs : ~previews'[d].exists /\ surfaces'[d] = 0
               /\ server' = "undefined"]_vars

\* A session created after the server failed to start.
C31_Witness ==
  /\ server = "failed"
  /\ lastOp.op = "create"
  /\ previews[lastOp.doc].exists
  /\ surfaces[lastOp.doc] = 1

\* C32 (SpecView).  An uncaught error or unhandled rejection in the view is
\* suppressed and changes neither the view nor what it has posted.  Since its
\* rendering a view has posted one message, and every message it has posted
\* is 'ready'; the extension shows the user nothing when it receives one.
C32_ViewFaultsContained ==
  [][/\ lastOp'.op = "fault" =>
          /\ lastOp'.prevented
          /\ view' = view
     /\ view' # NoDocument =>
          /\ view'.posts = 1
          /\ \A i \in 1 .. Len(view'.outbox) : view'.outbox[i].type = "ready"
     /\ lastOp'.op = "received" =>
          /\ lastOp'.message.type = "ready"
          /\ lastOp'.shown = ""
          /\ UNCHANGED <<httpVars, pmVars, hostVars>>]_vars

\* A fault in a view whose 'ready' message the extension has received.
C32_Witness ==
  /\ lastOp.op = "fault"
  /\ view # NoDocument
  /\ view.outbox = <<>>
  /\ view.posts = 1

\* C33 (SpecMarkup).  The HTML getHtmlContent produces for a third argument
\* that holds <script>alert(1)</script> does not hold that text, and holds
\* &lt;script&gt; instead.
C33_ThirdArgumentEscaped ==
  (lastOp.op = "getHtmlContent" /\ Contains(lastOp.contentUrl, ScriptTag)) =>
    /\ ~Contains(lastOp.html, ScriptTag)
    /\ Contains(lastOp.html, EscapedScriptOpen)

\* C34 (Spec).  Every key of the content registry is the identifier of a
\* document that has a session, and every session that shows the live view
\* (its first read or a later change delivery registered the text) has its
\* identifier in the registry.
C34_RegistryMatchesSessions ==
  /\ \A k \in DOMAIN contentMap :
       \E d \in Docs : previews[d].exists /\ DocIds[d] = k
  /\ \A d \in Docs :
       (previews[d].exists /\ previews[d].view.kind = "live")
         => DocIds[d] \in DOMAIN contentMap

\* C35 (Spec).  The URL of every live view carries the port the HttpServer is
\* listening on: the server is listening, and the port of the URL is its
\* port and is not 0.
C35_ViewUrlCarriesBoundPort ==
  \A d \in Docs :
    (previews[d].exists /\ previews[d].view.kind = "live") =>
      /\ server = "listening"
      /\ previews[d].view.url.port = port
      /\ previews[d].view.url.port # 0

\* C36 (SpecWatcher).  An edit of one document leaves the pending delivery
\* of every other document watched through the same FileWatcher scheduled.
C36_EditKeepsOtherDelivery ==
  [][lastOp'.op = "edit" =>
       \A a \in WatchedDocs \ {lastOp'.doc} :
         (\E i \in 1 .. Len(fw.timeouts) : fw.timeouts[i].uri = a)
           => (\E j \in 1 .. Len(fw'.timeouts) : fw'.timeouts[j].uri = a)]_vars

\* C37 (Spec).  updatePreview changes neither the sessions, nor the column
\* memory, nor the content registry, and the response served for its
\* document is the same after it as before.
C37_UpdatePreviewFrame ==
  [][lastOp'.op = "updatePreview" =>
       /\ previews' = previews
       /\ lastColumnPositions' = lastColumnPositions
       /\ contentMap' = contentMap
       /\ Served(contentMap', lastOp'.doc) = Served(contentMap, lastOp'.doc)]_vars

\* An updatePreview that posted 'update' for a session whose document was
\* edited after its text was registered: the registry still holds the older
\* text.
C37_Witness ==
  /\ lastOp.op = "updatePreview"
  /\ lastOp.method = "update"
  /\ previews[lastOp.doc].exists
  /\ DocIds[lastOp.doc] \in DOMAIN contentMap
  /\ contentMap[DocIds[lastOp.doc]] # docText[lastOp.doc]

C39_SessionColumnIsMemory ==
  \A d \in Docs :
    previews[d].exists => previews[d].lastViewColumn = lastColumnPositions[d]

\* A session whose surface reported a column other than the one it was
\* created in.
C39_Witness ==
  /\ lastOp.op = "viewState"
  /\ lastOp.column \in RealColumns
  /\ previews[lastOp.doc].exists
  /\ previews[lastOp.doc].lastViewColumn = lastOp.column
  /\ lastColumnPositions[lastOp.doc] = lastOp.column

\* C40 (SpecRollback).  A createOrShowPreview whose createPreview fails after
\* the session was stored throws the error to its caller and leaves the
\* document without a session and without a registry entry, with no watcher
\* of the failed session subscribed or scheduled; the createOrShowPreview
\* that follows for the document creates a session with a watcher of its own.
C40_FailedCreateRolledBack ==
  [][/\ lastOp'.op = "createFailed" =>
          /\ lastOp'.threw
          /\ ~previews'[lastOp'.doc].exists
          /\ DocIds[lastOp'.doc] \notin DOMAIN contentMap'
          /\ leaked' = leaked
     /\ (/\ lastOp.op = "createFailed"
         /\ lastOp'.op = "create"
         /\ lastOp'.doc = lastOp.doc) =>
          /\ previews'[lastOp.doc].exists
          /\ previews'[lastOp.doc].fileWatcher = Watch(NewFileWatcher, lastOp.doc, FALSE)
          /\ previews'[lastOp.doc].view # NoView]_vars

\* A createPreview that failed while generating the view, after it had
\* registered the content.
C40_Witness ==
  /\ lastOp.op = "createFailed"
  /\ lastOp.method = "view"
  /\ lastOp.flag
  /\ ~previews[lastOp.doc].exists
  /\ DocIds[lastOp.doc] \notin DOMAIN contentMap

====
